---- MODULE Spec2Model ----
(***************************************************************************)
(* Model of the question parser of PastPaper-Ragbot                        *)
(* (src/src/question_parser.py) and of its caller main.parse_questions     *)
(* (src/main.py).                                                          *)
(*                                                                         *)
(* A Python str is modelled as a sequence of one-character strings, so     *)
(* that strip, lower, split, join, the substring test and the regular      *)
(* expressions are computed character by character, as the code does.      *)
(***************************************************************************)
EXTENDS Integers, Sequences, FiniteSets, TLC

(***************************************************************************)
(* Characters and the str methods the parser uses                          *)
(***************************************************************************)
Digit == {"0", "1", "2", "3", "4", "5", "6", "7", "8", "9"}

UpperSeq == <<"A", "B", "C", "D", "E", "F", "G", "H", "I", "J", "K", "L", "M",
              "N", "O", "P", "Q", "R", "S", "T", "U", "V", "W", "X", "Y", "Z">>

LowerSeq == <<"a", "b", "c", "d", "e", "f", "g", "h", "i", "j", "k", "l", "m",
              "n", "o", "p", "q", "r", "s", "t", "u", "v", "w", "x", "y", "z">>

UpperLetter == {UpperSeq[k] : k \in 1..26}

LowerLetter == {LowerSeq[k] : k \in 1..26}

\* str.isspace characters that occur in the modelled texts
Whitespace == {" ", "\t", "\n", "\r", "\f"}

\* the characters the modelled texts are written in
Punct == {".", ")", "(", ":", "-", "_", "?", ",", "=", "+", "*", "/", "^", "\\", "|"}

Char == Digit \cup UpperLetter \cup LowerLetter \cup Whitespace \cup Punct

LowerTab == [c \in UpperLetter |-> LowerSeq[CHOOSE k \in 1..26 : UpperSeq[k] = c]]

UpperTab == [c \in LowerLetter |-> UpperSeq[CHOOSE k \in 1..26 : LowerSeq[k] = c]]

lower_char(c) == IF c \in UpperLetter THEN LowerTab[c] ELSE c

upper_char(c) == IF c \in LowerLetter THEN UpperTab[c] ELSE c

\* str.lower()
lower(s) == [k \in 1..Len(s) |-> lower_char(s[k])]

\* str.upper()
upper(s) == [k \in 1..Len(s) |-> upper_char(s[k])]

RECURSIVE lstrip(_)
lstrip(s) == IF s # <<>> /\ Head(s) \in Whitespace THEN lstrip(Tail(s)) ELSE s

RECURSIVE rstrip(_)
rstrip(s) ==
    IF s # <<>> /\ s[Len(s)] \in Whitespace THEN rstrip(SubSeq(s, 1, Len(s) - 1)) ELSE s

\* str.strip()
strip(s) == rstrip(lstrip(s))

\* s[a:b] with 1-based a (inclusive) and b (exclusive)
Slice(s, a, b) == SubSeq(s, a, b - 1)

\* sep.join(parts)
RECURSIVE join(_, _)
join(sep, parts) ==
    IF parts = <<>> THEN <<>>
    ELSE IF Len(parts) = 1 THEN parts[1]
    ELSE parts[1] \o sep \o join(sep, Tail(parts))

\* s.split(sep) for a one-character separator: the pieces between the
\* separators, always at least one piece
split(s, sep) ==
    LET seps == {p \in 1..Len(s) : s[p] = sep}
        \* the position of the k-th separator; 0 and Len(s) + 1 frame the text
        at(k) == IF k = 0 THEN 0
                 ELSE IF k > Cardinality(seps) THEN Len(s) + 1
                 ELSE CHOOSE p \in seps : Cardinality({q \in seps : q < p}) = k - 1
    IN  [k \in 1..(Cardinality(seps) + 1) |-> SubSeq(s, at(k - 1) + 1, at(k) - 1)]

\* needle in haystack (substring test)
contains(hay, needle) ==
    \E p \in 1..(Len(hay) - Len(needle) + 1) :
        \A j \in 1..Len(needle) : hay[p + j - 1] = needle[j]

\* int(digits)
DigitVal(c) == CHOOSE v \in 0..9 : <<"0", "1", "2", "3", "4", "5", "6", "7", "8", "9">>[v + 1] = c

RECURSIVE int(_)
int(ds) == IF ds = <<>> THEN 0 ELSE 10 * int(SubSeq(ds, 1, Len(ds) - 1)) + DigitVal(ds[Len(ds)])

\* str(n) for n >= 0
RECURSIVE str(_)
str(n) ==
    IF n < 10 THEN << <<"0", "1", "2", "3", "4", "5", "6", "7", "8", "9">>[n + 1] >>
    ELSE str(n \div 10) \o str(n % 10)

(***************************************************************************)
(* Regular expressions (module re): a backtracking matcher.  Ends(r, s, p) *)
(* is the sequence of positions at which a match of r that starts at p can *)
(* end, in the order in which the backtracking matcher tries them (greedy  *)
(* repetition first, alternatives left to right); the first one that lets  *)
(* the rest of the pattern match is the match Python reports.              *)
(***************************************************************************)
Cls(S) == [t |-> "cls", cs |-> S]

Lit(c) == Cls({c})

\* a literal under re.IGNORECASE
LitI(c) == Cls({lower_char(c), upper_char(c)})

Cat(rs) == [t |-> "cat", rs |-> rs]

Alt(rs) == [t |-> "alt", rs |-> rs]

\* c{lo,hi} for a character class c, greedy; hi = -1 is unbounded
Rep(c, lo, hi) == [t |-> "rep", cs |-> c.cs, lo |-> lo, hi |-> hi]

Star(r) == Rep(r, 0, -1)

Plus(r) == Rep(r, 1, -1)

Opt(r) == Rep(r, 0, 1)

\* $
Eol == [t |-> "eol"]

Word(w) == Cat([k \in 1..Len(w) |-> Lit(w[k])])

WordI(w) == Cat([k \in 1..Len(w) |-> LitI(w[k])])

\* \d, \s, \w and . over the modelled characters
ReDigit == Cls(Digit)

ReSpace == Cls(Whitespace)

ReWord == Cls(Digit \cup UpperLetter \cup LowerLetter \cup {"_"})

ReAny == Cls(Char \ {"\n"})

\* the number of characters of the class cs that follow one another from p
Run(cs, s, p) ==
    LET stop == CHOOSE q \in p..(Len(s) + 1) :
                    /\ q = Len(s) + 1 \/ s[q] \notin cs
                    /\ \A k \in p..(q - 1) : s[k] \in cs
    IN  stop - p

\* a greedy repetition of a class gives back one character at a time
EndsRep(cs, lo, hi, s, p) ==
    LET run == Run(cs, s, p)
        most == IF hi >= 0 /\ hi < run THEN hi ELSE run
    IN  IF most < lo THEN <<>> ELSE [k \in 1..(most - lo + 1) |-> p + most - k + 1]

RECURSIVE Ends(_, _, _), EndsAll(_, _, _, _), EndsCat(_, _, _, _), EndsAlt(_, _, _, _)
Ends(r, s, p) ==
    CASE r.t = "cls" -> IF p <= Len(s) /\ s[p] \in r.cs THEN <<p + 1>> ELSE <<>>
      [] r.t = "cat" -> EndsCat(r.rs, 1, s, <<p>>)
      [] r.t = "alt" -> EndsAlt(r.rs, 1, s, p)
      [] r.t = "rep" -> EndsRep(r.cs, r.lo, r.hi, s, p)
      [] r.t = "eol" ->
           IF p = Len(s) + 1 \/ (p = Len(s) /\ s[p] = "\n") THEN <<p>> ELSE <<>>

\* the ends of r from each start of ps, in order, from the k-th start on
EndsAll(r, s, ps, k) ==
    IF k > Len(ps) THEN <<>> ELSE Ends(r, s, ps[k]) \o EndsAll(r, s, ps, k + 1)

EndsCat(rs, k, s, ps) ==
    IF k > Len(rs) \/ ps = <<>> THEN ps ELSE EndsCat(rs, k + 1, s, EndsAll(rs[k], s, ps, 1))

EndsAlt(rs, k, s, p) ==
    IF k > Len(rs) THEN <<>> ELSE Ends(rs[k], s, p) \o EndsAlt(rs, k + 1, s, p)

\* pattern.match(s) for a pattern given as the sequence of its parts (the
\* groups are parts): the boundaries <<b1, ..., bn+1>> of the parts in the
\* first match the matcher finds at position 1, or <<>> when there is none
RECURSIVE Path(_, _, _, _), FirstPath(_, _, _, _, _)
Path(parts, k, s, p) ==
    IF k > Len(parts) THEN <<p>>
    ELSE FirstPath(parts, k, s, Ends(parts[k], s, p), 1)

FirstPath(parts, k, s, es, j) ==
    IF j > Len(es) THEN <<>>
    ELSE LET rest == Path(parts, k + 1, s, es[j])
         IN  IF rest # <<>> THEN <<es[j]>> \o rest
             ELSE FirstPath(parts, k, s, es, j + 1)

re_match(parts, s) ==
    LET rest == FirstPath(parts, 1, s, Ends(parts[1], s, 1), 1)
    IN  IF rest = <<>> THEN <<>> ELSE <<1>> \o SubSeq(rest, 1, Len(parts))

\* match.group for the part g of a match m of s
group(s, m, g) == Slice(s, m[g], m[g + 1])

\* pattern.search(s, pos): <<start, end>> of the leftmost match that starts
\* at p or later, or <<>>
search_from(r, s, p) ==
    LET starts == {q \in p..(Len(s) + 1) : Ends(r, s, q) # <<>>}
    IN  IF starts = {} THEN <<>>
        ELSE LET q == CHOOSE a \in starts : \A b \in starts : a <= b
             IN  <<q, Ends(r, s, q)[1]>>

re_search(r, s) == search_from(r, s, 1)

\* pattern.sub(repl, s) for a pattern that matches no empty string: the
\* matches are replaced from left to right, each search resuming where the
\* previous match ended
RECURSIVE sub_from(_, _, _, _)
sub_from(r, repl, s, p) ==
    LET m == search_from(r, s, p)
    IN  IF m = <<>> THEN SubSeq(s, p, Len(s))
        ELSE SubSeq(s, p, m[1] - 1) \o repl \o sub_from(r, repl, s, m[2])

re_sub(r, repl, s) == sub_from(r, repl, s, 1)

(***************************************************************************)
(* QuestionParser._compile_patterns                                        *)
(***************************************************************************)
\* Each entry: the parts of the pattern, the parts that are its groups 1
\* and 2, and the format name.  Priority order is the order of the list.
question_patterns == <<
    \* ^(\d+)\)\s+(.+)$
    [parts |-> <<Plus(ReDigit), Cat(<<Lit(")"), Plus(ReSpace)>>), Plus(ReAny), Eol>>,
     g1 |-> 1, g2 |-> 3, format |-> "parenthesis"],
    \* ^Q\.?\s*(\d+)\s+(.+)$  (IGNORECASE)
    [parts |-> <<Cat(<<LitI("Q"), Opt(Lit(".")), Star(ReSpace)>>), Plus(ReDigit),
                 Plus(ReSpace), Plus(ReAny), Eol>>,
     g1 |-> 2, g2 |-> 4, format |-> "q_dot"],
    \* ^(\d+)\.\s+(.+)$
    [parts |-> <<Plus(ReDigit), Cat(<<Lit("."), Plus(ReSpace)>>), Plus(ReAny), Eol>>,
     g1 |-> 1, g2 |-> 3, format |-> "dot"]
>>

option_patterns == <<
    \* ^([A-D])\.\s*(.*)$
    [parts |-> <<Cls({"A", "B", "C", "D"}), Cat(<<Lit("."), Star(ReSpace)>>), Star(ReAny), Eol>>,
     g1 |-> 1, g2 |-> 3, format |-> "upper_dot"],
    \* ^([a-d])\.\s*(.*)$
    [parts |-> <<Cls({"a", "b", "c", "d"}), Cat(<<Lit("."), Star(ReSpace)>>), Star(ReAny), Eol>>,
     g1 |-> 1, g2 |-> 3, format |-> "lower_dot"],
    \* ^([A-D])\)\s*(.*)$
    [parts |-> <<Cls({"A", "B", "C", "D"}), Cat(<<Lit(")"), Star(ReSpace)>>), Star(ReAny), Eol>>,
     g1 |-> 1, g2 |-> 3, format |-> "upper_paren"],
    \* ^([a-d])\)\s*(.*)$
    [parts |-> <<Cls({"a", "b", "c", "d"}), Cat(<<Lit(")"), Star(ReSpace)>>), Star(ReAny), Eol>>,
     g1 |-> 1, g2 |-> 3, format |-> "lower_paren"]
>>

\* ^(?:Sol|Solution|Answer|Explanation)\s*:\s*(.+)$  (IGNORECASE); group 1 is part 2
solution_pattern == <<
    Cat(<<Alt(<<WordI(<<"S", "o", "l">>),
                WordI(<<"S", "o", "l", "u", "t", "i", "o", "n">>),
                WordI(<<"A", "n", "s", "w", "e", "r">>),
                WordI(<<"E", "x", "p", "l", "a", "n", "a", "t", "i", "o", "n">>)>>),
          Star(ReSpace), Lit(":"), Star(ReSpace)>>),
    Plus(ReAny), Eol>>

\* \(Correct\)\s*$  (IGNORECASE)
correct_marker ==
    Cat(<<Lit("("), WordI(<<"C", "o", "r", "r", "e", "c", "t">>), Lit(")"), Star(ReSpace), Eol>>)

\* \(?\s*(?:NET|NUST|MDCAT)[-\s]*\d*\s*\(?\d{1,2}[-\s]?\w*[-\s]?\d{4}\)?\s*\)?  (IGNORECASE)
exam_tag_pattern ==
    Cat(<<Opt(Lit("(")), Star(ReSpace),
          Alt(<<WordI(<<"N", "E", "T">>), WordI(<<"N", "U", "S", "T">>),
                WordI(<<"M", "D", "C", "A", "T">>)>>),
          Star(Cls({"-"} \cup Whitespace)), Star(ReDigit), Star(ReSpace), Opt(Lit("(")),
          Rep(ReDigit, 1, 2), Opt(Cls({"-"} \cup Whitespace)), Star(ReWord),
          Opt(Cls({"-"} \cup Whitespace)), Rep(ReDigit, 4, 4), Opt(Lit(")")),
          Star(ReSpace), Opt(Lit(")"))>>)

\* [=+\-*/^...]|\\frac|\\sqrt ; of the symbols of the class, the ones among
\* the modelled characters
formula_indicators ==
    Alt(<<Cls({"=", "+", "-", "*", "/", "^"}),
          Word(<<"\\", "f", "r", "a", "c">>), Word(<<"\\", "s", "q", "r", "t">>)>>)

\* \d+\s*[+\-*/]\s*\d+|=\s*\d+ ; of the operators of the class, the ones
\* among the modelled characters
calculation_indicators ==
    Alt(<<Cat(<<Plus(ReDigit), Star(ReSpace), Cls({"+", "-", "*", "/"}), Star(ReSpace),
                Plus(ReDigit)>>),
          Cat(<<Lit("="), Star(ReSpace), Plus(ReDigit)>>)>>)

(***************************************************************************)
(* QuestionParser._load_subject_keywords: the vocabulary in declaration    *)
(* order (the iteration order of the dict)                                 *)
(***************************************************************************)
subject_keywords == <<
    [subject |-> <<"p", "h", "y", "s", "i", "c", "s">>,  \* physics
     keywords |-> <<
        <<"v", "e", "l", "o", "c", "i", "t", "y">>,  \* velocity
        <<"a", "c", "c", "e", "l", "e", "r", "a", "t", "i", "o", "n">>,  \* acceleration
        <<"f", "o", "r", "c", "e">>,  \* force
        <<"e", "n", "e", "r", "g", "y">>,  \* energy
        <<"m", "o", "m", "e", "n", "t", "u", "m">>,  \* momentum
        <<"m", "a", "s", "s">>,  \* mass
        <<"e", "l", "e", "c", "t", "r", "i", "c">>,  \* electric
        <<"m", "a", "g", "n", "e", "t", "i", "c">>,  \* magnetic
        <<"w", "a", "v", "e">>,  \* wave
        <<"f", "r", "e", "q", "u", "e", "n", "c", "y">>,  \* frequency
        <<"w", "a", "v", "e", "l", "e", "n", "g", "t", "h">>,  \* wavelength
        <<"p", "h", "o", "t", "o", "n">>,  \* photon
        <<"q", "u", "a", "n", "t", "u", "m">>,  \* quantum
        <<"n", "u", "c", "l", "e", "a", "r">>,  \* nuclear
        <<"a", "t", "o", "m">>,  \* atom
        <<"e", "l", "e", "c", "t", "r", "o", "n">>,  \* electron
        <<"p", "r", "o", "t", "o", "n">>,  \* proton
        <<"n", "e", "u", "t", "r", "o", "n">>,  \* neutron
        <<"c", "i", "r", "c", "u", "i", "t">>,  \* circuit
        <<"v", "o", "l", "t", "a", "g", "e">>,  \* voltage
        <<"c", "u", "r", "r", "e", "n", "t">>,  \* current
        <<"r", "e", "s", "i", "s", "t", "a", "n", "c", "e">>,  \* resistance
        <<"c", "a", "p", "a", "c", "i", "t", "o", "r">>,  \* capacitor
        <<"m", "o", "t", "i", "o", "n">>,  \* motion
        <<"g", "r", "a", "v", "i", "t", "y">>,  \* gravity
        <<"f", "r", "i", "c", "t", "i", "o", "n">>,  \* friction
        <<"p", "r", "e", "s", "s", "u", "r", "e">>,  \* pressure
        <<"t", "e", "m", "p", "e", "r", "a", "t", "u", "r", "e">>,  \* temperature
        <<"t", "h", "e", "r", "m", "o", "d", "y", "n", "a", "m", "i", "c", "s">>,  \* thermodynamics
        <<"o", "p", "t", "i", "c", "s">>,  \* optics
        <<"l", "e", "n", "s">>,  \* lens
        <<"m", "i", "r", "r", "o", "r">>,  \* mirror
        <<"r", "e", "f", "r", "a", "c", "t", "i", "o", "n">>,  \* refraction
        <<"k", "i", "n", "e", "t", "i", "c">>,  \* kinetic
        <<"p", "o", "t", "e", "n", "t", "i", "a", "l">>,  \* potential
        <<"j", "o", "u", "l", "e">>,  \* joule
        <<"w", "a", "t", "t">>,  \* watt
        <<"n", "e", "w", "t", "o", "n">>,  \* newton
        <<"c", "o", "u", "l", "o", "m", "b">>  \* coulomb
     >>],
    [subject |-> <<"c", "h", "e", "m", "i", "s", "t", "r", "y">>,  \* chemistry
     keywords |-> <<
        <<"a", "t", "o", "m">>,  \* atom
        <<"m", "o", "l", "e", "c", "u", "l", "e">>,  \* molecule
        <<"c", "o", "m", "p", "o", "u", "n", "d">>,  \* compound
        <<"e", "l", "e", "m", "e", "n", "t">>,  \* element
        <<"r", "e", "a", "c", "t", "i", "o", "n">>,  \* reaction
        <<"b", "o", "n", "d">>,  \* bond
        <<"a", "c", "i", "d">>,  \* acid
        <<"b", "a", "s", "e">>,  \* base
        <<"p", "H">>,  \* pH
        <<"o", "x", "i", "d", "a", "t", "i", "o", "n">>,  \* oxidation
        <<"r", "e", "d", "u", "c", "t", "i", "o", "n">>,  \* reduction
        <<"c", "a", "t", "a", "l", "y", "s", "t">>,  \* catalyst
        <<"o", "r", "g", "a", "n", "i", "c">>,  \* organic
        <<"i", "n", "o", "r", "g", "a", "n", "i", "c">>,  \* inorganic
        <<"a", "l", "k", "a", "n", "e">>,  \* alkane
        <<"a", "l", "k", "e", "n", "e">>,  \* alkene
        <<"a", "l", "k", "y", "n", "e">>,  \* alkyne
        <<"b", "e", "n", "z", "e", "n", "e">>,  \* benzene
        <<"e", "l", "e", "c", "t", "r", "o", "n">>,  \* electron
        <<"i", "o", "n">>,  \* ion
        <<"c", "a", "t", "i", "o", "n">>,  \* cation
        <<"a", "n", "i", "o", "n">>,  \* anion
        <<"i", "s", "o", "t", "o", "p", "e">>,  \* isotope
        <<"m", "o", "l", "e">>,  \* mole
        <<"s", "o", "l", "u", "t", "i", "o", "n">>,  \* solution
        <<"s", "o", "l", "v", "e", "n", "t">>,  \* solvent
        <<"s", "o", "l", "u", "t", "e">>,  \* solute
        <<"c", "o", "n", "c", "e", "n", "t", "r", "a", "t", "i", "o", "n">>,  \* concentration
        <<"m", "o", "l", "a", "r", "i", "t", "y">>,  \* molarity
        <<"p", "e", "r", "i", "o", "d", "i", "c">>,  \* periodic
        <<"v", "a", "l", "e", "n", "c", "y">>,  \* valency
        <<"e", "l", "e", "c", "t", "r", "o", "n", "e", "g", "a", "t", "i", "v", "i", "t", "y">>,  \* electronegativity
        <<"h", "y", "b", "r", "i", "d", "i", "z", "a", "t", "i", "o", "n">>,  \* hybridization
        <<"e", "q", "u", "i", "l", "i", "b", "r", "i", "u", "m">>,  \* equilibrium
        <<"s", "t", "o", "i", "c", "h", "i", "o", "m", "e", "t", "r", "y">>,  \* stoichiometry
        <<"e", "n", "t", "h", "a", "l", "p", "y">>,  \* enthalpy
        <<"e", "n", "t", "r", "o", "p", "y">>  \* entropy
     >>],
    [subject |-> <<"b", "i", "o", "l", "o", "g", "y">>,  \* biology
     keywords |-> <<
        <<"c", "e", "l", "l">>,  \* cell
        <<"D", "N", "A">>,  \* DNA
        <<"R", "N", "A">>,  \* RNA
        <<"g", "e", "n", "e">>,  \* gene
        <<"p", "r", "o", "t", "e", "i", "n">>,  \* protein
        <<"e", "n", "z", "y", "m", "e">>,  \* enzyme
        <<"c", "h", "r", "o", "m", "o", "s", "o", "m", "e">>,  \* chromosome
        <<"m", "i", "t", "o", "c", "h", "o", "n", "d", "r", "i", "a">>,  \* mitochondria
        <<"c", "h", "l", "o", "r", "o", "p", "l", "a", "s", "t">>,  \* chloroplast
        <<"n", "u", "c", "l", "e", "u", "s">>,  \* nucleus
        <<"r", "i", "b", "o", "s", "o", "m", "e">>,  \* ribosome
        <<"m", "e", "m", "b", "r", "a", "n", "e">>,  \* membrane
        <<"p", "h", "o", "t", "o", "s", "y", "n", "t", "h", "e", "s", "i", "s">>,  \* photosynthesis
        <<"r", "e", "s", "p", "i", "r", "a", "t", "i", "o", "n">>,  \* respiration
        <<"m", "e", "t", "a", "b", "o", "l", "i", "s", "m">>,  \* metabolism
        <<"g", "l", "y", "c", "o", "l", "y", "s", "i", "s">>,  \* glycolysis
        <<"m", "i", "t", "o", "s", "i", "s">>,  \* mitosis
        <<"m", "e", "i", "o", "s", "i", "s">>,  \* meiosis
        <<"t", "i", "s", "s", "u", "e">>,  \* tissue
        <<"o", "r", "g", "a", "n">>,  \* organ
        <<"b", "l", "o", "o", "d">>,  \* blood
        <<"h", "e", "a", "r", "t">>,  \* heart
        <<"n", "e", "r", "v", "o", "u", "s">>,  \* nervous
        <<"b", "r", "a", "i", "n">>,  \* brain
        <<"h", "o", "r", "m", "o", "n", "e">>,  \* hormone
        <<"r", "e", "p", "r", "o", "d", "u", "c", "t", "i", "o", "n">>,  \* reproduction
        <<"e", "v", "o", "l", "u", "t", "i", "o", "n">>,  \* evolution
        <<"b", "a", "c", "t", "e", "r", "i", "a">>,  \* bacteria
        <<"v", "i", "r", "u", "s">>,  \* virus
        <<"f", "u", "n", "g", "i">>,  \* fungi
        <<"p", "l", "a", "n", "t">>,  \* plant
        <<"a", "n", "i", "m", "a", "l">>,  \* animal
        <<"s", "p", "e", "c", "i", "e", "s">>,  \* species
        <<"e", "c", "o", "s", "y", "s", "t", "e", "m">>,  \* ecosystem
        <<"g", "e", "n", "e", "t", "i", "c", "s">>,  \* genetics
        <<"m", "u", "t", "a", "t", "i", "o", "n">>,  \* mutation
        <<"a", "l", "l", "e", "l", "e">>,  \* allele
        <<"p", "h", "e", "n", "o", "t", "y", "p", "e">>  \* phenotype
     >>],
    [subject |-> <<"m", "a", "t", "h", "e", "m", "a", "t", "i", "c", "s">>,  \* mathematics
     keywords |-> <<
        <<"e", "q", "u", "a", "t", "i", "o", "n">>,  \* equation
        <<"f", "u", "n", "c", "t", "i", "o", "n">>,  \* function
        <<"d", "e", "r", "i", "v", "a", "t", "i", "v", "e">>,  \* derivative
        <<"i", "n", "t", "e", "g", "r", "a", "l">>,  \* integral
        <<"l", "i", "m", "i", "t">>,  \* limit
        <<"m", "a", "t", "r", "i", "x">>,  \* matrix
        <<"d", "e", "t", "e", "r", "m", "i", "n", "a", "n", "t">>,  \* determinant
        <<"v", "e", "c", "t", "o", "r">>,  \* vector
        <<"t", "r", "i", "g", "o", "n", "o", "m", "e", "t", "r", "y">>,  \* trigonometry
        <<"l", "o", "g", "a", "r", "i", "t", "h", "m">>,  \* logarithm
        <<"p", "o", "l", "y", "n", "o", "m", "i", "a", "l">>,  \* polynomial
        <<"q", "u", "a", "d", "r", "a", "t", "i", "c">>,  \* quadratic
        <<"l", "i", "n", "e", "a", "r">>,  \* linear
        <<"p", "a", "r", "a", "b", "o", "l", "a">>,  \* parabola
        <<"h", "y", "p", "e", "r", "b", "o", "l", "a">>,  \* hyperbola
        <<"p", "r", "o", "b", "a", "b", "i", "l", "i", "t", "y">>,  \* probability
        <<"s", "t", "a", "t", "i", "s", "t", "i", "c", "s">>,  \* statistics
        <<"m", "e", "a", "n">>,  \* mean
        <<"m", "e", "d", "i", "a", "n">>,  \* median
        <<"v", "a", "r", "i", "a", "n", "c", "e">>,  \* variance
        <<"s", "e", "q", "u", "e", "n", "c", "e">>,  \* sequence
        <<"s", "e", "r", "i", "e", "s">>,  \* series
        <<"g", "e", "o", "m", "e", "t", "r", "i", "c">>,  \* geometric
        <<"a", "r", "i", "t", "h", "m", "e", "t", "i", "c">>,  \* arithmetic
        <<"p", "e", "r", "m", "u", "t", "a", "t", "i", "o", "n">>,  \* permutation
        <<"c", "o", "m", "b", "i", "n", "a", "t", "i", "o", "n">>,  \* combination
        <<"b", "i", "n", "o", "m", "i", "a", "l">>,  \* binomial
        <<"c", "o", "s", "i", "n", "e">>,  \* cosine
        <<"s", "i", "n", "e">>,  \* sine
        <<"t", "a", "n", "g", "e", "n", "t">>,  \* tangent
        <<"c", "o", "m", "p", "l", "e", "x">>,  \* complex
        <<"i", "m", "a", "g", "i", "n", "a", "r", "y">>,  \* imaginary
        <<"r", "e", "a", "l">>,  \* real
        <<"r", "a", "t", "i", "o", "n", "a", "l">>,  \* rational
        <<"i", "r", "r", "a", "t", "i", "o", "n", "a", "l">>  \* irrational
     >>],
    [subject |-> <<"e", "n", "g", "l", "i", "s", "h">>,  \* english
     keywords |-> <<
        <<"g", "r", "a", "m", "m", "a", "r">>,  \* grammar
        <<"v", "o", "c", "a", "b", "u", "l", "a", "r", "y">>,  \* vocabulary
        <<"s", "y", "n", "o", "n", "y", "m">>,  \* synonym
        <<"a", "n", "t", "o", "n", "y", "m">>,  \* antonym
        <<"s", "e", "n", "t", "e", "n", "c", "e">>,  \* sentence
        <<"n", "o", "u", "n">>,  \* noun
        <<"v", "e", "r", "b">>,  \* verb
        <<"a", "d", "j", "e", "c", "t", "i", "v", "e">>,  \* adjective
        <<"a", "d", "v", "e", "r", "b">>,  \* adverb
        <<"p", "r", "o", "n", "o", "u", "n">>,  \* pronoun
        <<"t", "e", "n", "s", "e">>,  \* tense
        <<"p", "r", "e", "p", "o", "s", "i", "t", "i", "o", "n">>,  \* preposition
        <<"c", "o", "n", "j", "u", "n", "c", "t", "i", "o", "n">>,  \* conjunction
        <<"a", "r", "t", "i", "c", "l", "e">>,  \* article
        <<"c", "o", "m", "p", "r", "e", "h", "e", "n", "s", "i", "o", "n">>,  \* comprehension
        <<"p", "a", "s", "s", "a", "g", "e">>,  \* passage
        <<"m", "e", "a", "n", "i", "n", "g">>,  \* meaning
        <<"c", "o", "n", "t", "e", "x", "t">>  \* context
     >>]
>>

\* Python's None, comparable with the texts
None == <<"None">>

\* a str used as a condition
truthy(s) == s # None /\ s # <<>>

(***************************************************************************)
(* The line classifier                                                     *)
(***************************************************************************)
\* re.sub(r' {2,}', ' ', text)
squeeze_spaces(text) == re_sub(Rep(Lit(" "), 2, -1), <<" ">>, text)

clean_text(text) == strip(squeeze_spaces(re_sub(exam_tag_pattern, <<>>, text)))

\* a detector's result when nothing matches (Python's None)
NoMatch == [matched |-> FALSE]

\* the first pattern of the table that matches, tried in order
RECURSIVE first_match(_, _, _)
first_match(patterns, k, line) ==
    IF k > Len(patterns) THEN NoMatch
    ELSE LET m == re_match(patterns[k].parts, line)
         IN  IF m # <<>> THEN [matched |-> TRUE, pattern |-> patterns[k], m |-> m]
             ELSE first_match(patterns, k + 1, line)

detect_question_start(raw) ==
    LET line == strip(raw)
        hit == first_match(question_patterns, 1, line)
    IN  IF line = <<>> \/ ~hit.matched THEN NoMatch
        ELSE [matched |-> TRUE,
              q_num |-> int(group(line, hit.m, hit.pattern.g1)),
              q_text |-> strip(group(line, hit.m, hit.pattern.g2)),
              format |-> hit.pattern.format]

detect_option(raw) ==
    LET line == strip(raw)
        hit == first_match(option_patterns, 1, line)
    IN  IF line = <<>> \/ ~hit.matched THEN NoMatch
        ELSE [matched |-> TRUE,
              label |-> upper(group(line, hit.m, hit.pattern.g1)),
              text |-> strip(group(line, hit.m, hit.pattern.g2)),
              format |-> hit.pattern.format]

\* the remainder of the line, or None
detect_solution(raw) ==
    LET line == strip(raw)
        m == re_match(solution_pattern, line)
    IN  IF m = <<>> THEN None ELSE strip(group(line, m, 2))

\* extract_answer_from_option with a marker compiled without IGNORECASE
extract_answer_from_option_case(option_text) ==
    LET marker == Cat(<<Lit("("), Word(<<"C", "o", "r", "r", "e", "c", "t">>), Lit(")"),
                        Star(ReSpace), Eol>>)
    IN  IF re_search(marker, option_text) # <<>>
        THEN [text |-> strip(re_sub(marker, <<>>, option_text)), is_correct |-> TRUE]
        ELSE [text |-> option_text, is_correct |-> FALSE]

\* returns the cleaned text and whether the marker was found
extract_answer_from_option(option_text) ==
    IF re_search(correct_marker, option_text) # <<>>
    THEN [text |-> strip(re_sub(correct_marker, <<>>, option_text)), is_correct |-> TRUE]
    ELSE [text |-> option_text, is_correct |-> FALSE]

(***************************************************************************)
(* The record finalizer: create_question and the functions it calls        *)
(***************************************************************************)
\* Optional[int]: no year, or the year
NoYear == <<>>

Year(n) == <<n>>

extract_exam_info(source) ==
    LET filename == upper(source)
        exam_type ==
            IF contains(filename, <<"M", "D", "C", "A", "T">>) THEN <<"M", "D", "C", "A", "T">>
            ELSE IF contains(filename, <<"N", "E", "T">>) \/ contains(filename, <<"N", "U", "S", "T">>)
                 THEN <<"N", "E", "T">>
            ELSE <<"G", "E", "N", "E", "R", "A", "L">>
        \* 20\d{2}
        year_match == re_search(Cat(<<Lit("2"), Lit("0"), Rep(ReDigit, 2, 2)>>), filename)
    IN  [exam_type |-> exam_type,
         year |-> IF year_match # <<>>
                  THEN Year(int(Slice(filename, year_match[1], year_match[2])))
                  ELSE NoYear]

\* the text that classify_subject scans: the lowercased question text, then
\* a space and the lowercased text of each option
RECURSIVE classify_text(_, _, _)
classify_text(text, options, k) ==
    IF k > Len(options) THEN text
    ELSE classify_text(text \o <<" ">> \o lower(options[k].text), options, k + 1)

\* the inner loop: one point per keyword of the list found in the text
keyword_score(keywords, text) ==
    Cardinality({k \in 1..Len(keywords) : contains(text, keywords[k])})

\* py_max with a later key replacing the best one on an equal score
RECURSIVE py_max_last(_, _, _)
py_max_last(scores, k, best) ==
    IF k > Len(scores) THEN best
    ELSE py_max_last(scores, k + 1, IF scores[k] >= scores[best] THEN k ELSE best)

\* max(scores, key=scores.get): the scan keeps the first key whose score is
\* the greatest (a later key replaces it only with a greater score)
RECURSIVE py_max(_, _, _)
py_max(scores, k, best) ==
    IF k > Len(scores) THEN best
    ELSE py_max(scores, k + 1, IF scores[k] > scores[best] THEN k ELSE best)

\* classify_subject without the test of line 464: the best subject is
\* returned whatever its score
classify_subject_unchecked(question_text, options) ==
    LET text == classify_text(lower(question_text), options, 1)
        scores == [k \in 1..Len(subject_keywords) |->
                      keyword_score(subject_keywords[k].keywords, text)]
        best_subject == py_max(scores, 1, 1)
    IN  IF Len(scores) > 0
        THEN subject_keywords[best_subject].subject
        ELSE <<"g", "e", "n", "e", "r", "a", "l">>

\* lines 444-467
classify_subject(question_text, options) ==
    LET text == classify_text(lower(question_text), options, 1)
        scores == [k \in 1..Len(subject_keywords) |->
                      keyword_score(subject_keywords[k].keywords, text)]
        best_subject == py_max(scores, 1, 1)
    IN  IF Len(scores) > 0 /\ scores[best_subject] > 0
        THEN subject_keywords[best_subject].subject
        ELSE <<"g", "e", "n", "e", "r", "a", "l">>

\* format(n, "03d")
RECURSIVE zero_pad(_, _)
zero_pad(s, width) == IF Len(s) >= width THEN s ELSE zero_pad(<<"0">> \o s, width)

\* generate_question_id with the number written without its leading zeros
generate_question_id_unpadded(exam_type, year, q_num) ==
    LET year_str == IF year # NoYear /\ year[1] # 0 THEN str(year[1])
                    ELSE <<"U", "N", "K", "N", "O", "W", "N">>
    IN  exam_type \o <<"_">> \o year_str \o <<"_", "Q">> \o str(q_num)

\* lines 469-472
generate_question_id(exam_type, year, q_num) ==
    LET year_str == IF year # NoYear /\ year[1] # 0 THEN str(year[1])
                    ELSE <<"U", "N", "K", "N", "O", "W", "N">>
    IN  exam_type \o <<"_">> \o year_str \o <<"_", "Q">> \o zero_pad(str(q_num), 3)

\* the texts of the options that have a non-empty text, in order
RECURSIVE option_texts(_, _)
option_texts(options, k) ==
    IF k > Len(options) THEN <<>>
    ELSE (IF options[k].text # <<>> THEN <<options[k].text>> ELSE <<>>)
         \o option_texts(options, k + 1)

\* the loop that looks for the answer's text: the first option with the label
RECURSIVE answer_part(_, _, _)
answer_part(options, correct_answer, k) ==
    IF k > Len(options) THEN <<>>
    ELSE IF options[k].label = correct_answer
         THEN << <<"A", "n", "s", "w", "e", "r", ":", " ">> \o options[k].text >>
         ELSE answer_part(options, correct_answer, k + 1)

generate_embedding_text(question_text, options, subject, correct_answer) ==
    LET texts == option_texts(options, 1)
        parts ==
            << <<"Q", "u", "e", "s", "t", "i", "o", "n", ":", " ">> \o question_text >>
            \o (IF texts # <<>>
                THEN << <<"O", "p", "t", "i", "o", "n", "s", ":", " ">>
                        \o join(<<" ", "|", " ">>, texts) >>
                ELSE <<>>)
            \o << <<"S", "u", "b", "j", "e", "c", "t", ":", " ">> \o subject >>
            \o (IF correct_answer # None /\ correct_answer # <<>>
                THEN answer_part(options, correct_answer, 1)
                ELSE <<>>)
    IN  join(<<" ">>, parts)

RECURSIVE raw_options(_, _)
raw_options(options, k) ==
    IF k > Len(options) THEN <<>>
    ELSE options[k].label \o <<".", " ">> \o options[k].text \o <<"\n">>
         \o raw_options(options, k + 1)

create_question(question_number, question_text0, options, correct_answer, solution, source) ==
    LET question_text == clean_text(question_text0)
        info == extract_exam_info(source)
        subject == classify_subject(question_text, options)
    IN  [id |-> generate_question_id(info.exam_type, info.year, question_number),
         question_number |-> question_number,
         question_text |-> question_text,
         options |-> options,
         correct_answer |-> correct_answer,
         solution |-> solution,
         subject |-> subject,
         topic |-> None,
         difficulty |-> <<"m", "e", "d", "i", "u", "m">>,
         has_formulas |-> re_search(formula_indicators, question_text) # <<>>,
         has_calculations |-> re_search(calculation_indicators, question_text) # <<>>,
         has_multiline |-> contains(question_text, <<"\n">>)
                           \/ \E k \in 1..Len(options) : contains(options[k].text, <<"\n">>),
         source_file |-> source,
         exam_type |-> info.exam_type,
         year |-> info.year,
         embedding_text |->
             generate_embedding_text(question_text, options, subject, correct_answer),
         raw_text |-> <<"Q">> \o str(question_number) \o <<".", " ">> \o question_text
                      \o <<"\n">> \o raw_options(options, 1)]

(***************************************************************************)
(* enhance_simple.SimpleEnhancer: the difficulty score                     *)
(***************************************************************************)
\* A float is held as its number of thousandths: 5.0 is 5000, 0.5 is 500.
\* Every float of calculate_difficulty_score is a sum of halves, which the
\* binary format holds exactly.

\* round(x, 1): to the nearest tenth, a tie to the even tenth
py_round1(x) ==
    LET q == x \div 100
        r == x % 100
    IN  IF r > 50 \/ (r = 50 /\ q % 2 = 1) THEN (q + 1) * 100 ELSE q * 100

float_min(a, b) == IF b < a THEN b ELSE a

float_max(a, b) == IF b > a THEN b ELSE a

\* line 127: [=+\-*/^...]|\\frac|\\sqrt ; of the symbols of the class, the
\* ones among the modelled characters
difficulty_formula_pattern ==
    Alt(<<Cls({"=", "+", "-", "*", "/", "^"}),
          Word(<<"\\", "f", "r", "a", "c">>), Word(<<"\\", "s", "q", "r", "t">>)>>)

\* line 128: \d+\s*[+\-*/]\s*\d+|=\s*\d+
difficulty_calculation_pattern ==
    Alt(<<Cat(<<Plus(ReDigit), Star(ReSpace), Cls({"+", "-", "*", "/"}), Star(ReSpace),
                Plus(ReDigit)>>),
          Cat(<<Lit("="), Star(ReSpace), Plus(ReDigit)>>)>>)

\* line 141
complexity_words == <<<<"c", "o", "m", "p", "l", "e", "x">>, <<"a", "d", "v", "a", "n", "c", "e", "d">>, <<"d", "e", "r", "i", "v", "e">>, <<"p", "r", "o", "v", "e">>>>

\* line 143
simplicity_words == <<<<"s", "i", "m", "p", "l", "e">>, <<"b", "a", "s", "i", "c">>, <<"e", "l", "e", "m", "e", "n", "t", "a", "r", "y">>>>

\* any(word in text for word in words)
any_in(words, text) == \E k \in 1..Len(words) : contains(text, words[k])

\* sum(len(opt.get('text', '')) for opt in options)
RECURSIVE sum_text_len(_, _)
sum_text_len(options, k) ==
    IF k > Len(options) THEN 0 ELSE Len(options[k].text) + sum_text_len(options, k + 1)

\* length_factor with the test for more than 300 characters made first
length_factor_longest_first(score, q_len) ==
    IF q_len > 300 THEN score + 1500
    ELSE IF q_len > 200 THEN score + 1000
    ELSE IF q_len < 50 THEN score - 500
    ELSE score

\* lines 117-123: the length factor
length_factor(score, q_len) ==
    IF q_len > 200 THEN score + 1000
    ELSE IF q_len > 300 THEN score + 1500
    ELSE IF q_len < 50 THEN score - 500
    ELSE score

\* lines 114-152: the score before it is rounded and clamped
raw_difficulty_score(question_text, options) ==
    LET q_len == Len(question_text)
        by_length == length_factor(5000, q_len)
        has_formulas == re_search(difficulty_formula_pattern, question_text) # <<>>
        has_calculations == re_search(difficulty_calculation_pattern, question_text) # <<>>
        by_formulas == IF has_formulas THEN by_length + 500 ELSE by_length
        by_calculations == IF has_calculations THEN by_formulas + 500 ELSE by_formulas
        \* avg_opt_len > 50, the quotient of two integers
        by_options ==
            IF options # <<>> /\ sum_text_len(options, 1) > 50 * Len(options)
            THEN by_calculations + 500 ELSE by_calculations
        text_lower == lower(question_text)
        by_keywords ==
            IF any_in(complexity_words, text_lower) THEN by_options + 1000
            ELSE IF any_in(simplicity_words, text_lower) THEN by_options - 500
            ELSE by_options
    IN  IF /\ contains(text_lower, <<"a", "n", "d">>)
           /\ contains(text_lower, <<"c", "a", "l", "c", "u", "l", "a", "t", "e">>) \/ contains(text_lower, <<"f", "i", "n", "d">>)
        THEN by_keywords + 500 ELSE by_keywords

\* the score of line 154 divided by ten, as a score on the scale of 0 to 1
calculate_difficulty_score_normalised(question_text, options) ==
    float_max(1000, float_min(10000,
        py_round1(raw_difficulty_score(question_text, options)))) \div 10

\* lines 103-154
calculate_difficulty_score(question_text, options) ==
    float_max(1000, float_min(10000, py_round1(raw_difficulty_score(question_text, options))))

\* get_difficulty_level with the bounds of the bands taken as inclusive
get_difficulty_level_inclusive(score) ==
    IF score <= 3500 THEN <<"e", "a", "s", "y">>
    ELSE IF score <= 6500 THEN <<"m", "e", "d", "i", "u", "m">>
    ELSE IF score <= 8500 THEN <<"h", "a", "r", "d">>
    ELSE <<"e", "x", "p", "e", "r", "t">>

\* lines 156-173
get_difficulty_level(score) ==
    IF score < 3500 THEN <<"e", "a", "s", "y">>
    ELSE IF score < 6500 THEN <<"m", "e", "d", "i", "u", "m">>
    ELSE IF score < 8500 THEN <<"h", "a", "r", "d">>
    ELSE <<"e", "x", "p", "e", "r", "t">>

(***************************************************************************)
(* enhance_simple.TOPICS: subject, topic and keywords in declaration order *)
(***************************************************************************)
TOPICS == <<
    [subject |-> <<"p", "h", "y", "s", "i", "c", "s">>,  \* physics
     topics |-> <<
        [topic |-> <<"c", "i", "r", "c", "u", "l", "a", "r", "_", "m", "o", "t", "i", "o", "n">>,  \* circular_motion
         keywords |-> <<
            <<"c", "e", "n", "t", "r", "i", "p", "e", "t", "a", "l">>,  \* centripetal
            <<"t", "a", "n", "g", "e", "n", "t", "i", "a", "l">>,  \* tangential
            <<"a", "n", "g", "u", "l", "a", "r">>,  \* angular
            <<"c", "i", "r", "c", "u", "l", "a", "r">>,  \* circular
            <<"r", "a", "d", "i", "u", "s">>  \* radius
         >>],
        [topic |-> <<"w", "a", "v", "e", "s">>,  \* waves
         keywords |-> <<
            <<"w", "a", "v", "e">>,  \* wave
            <<"f", "r", "e", "q", "u", "e", "n", "c", "y">>,  \* frequency
            <<"w", "a", "v", "e", "l", "e", "n", "g", "t", "h">>,  \* wavelength
            <<"s", "o", "u", "n", "d">>,  \* sound
            <<"d", "o", "p", "p", "l", "e", "r">>,  \* doppler
            <<"i", "n", "t", "e", "r", "f", "e", "r", "e", "n", "c", "e">>,  \* interference
            <<"d", "i", "f", "f", "r", "a", "c", "t", "i", "o", "n">>  \* diffraction
         >>],
        [topic |-> <<"e", "l", "e", "c", "t", "r", "i", "c", "i", "t", "y">>,  \* electricity
         keywords |-> <<
            <<"e", "l", "e", "c", "t", "r", "i", "c">>,  \* electric
            <<"c", "u", "r", "r", "e", "n", "t">>,  \* current
            <<"v", "o", "l", "t", "a", "g", "e">>,  \* voltage
            <<"c", "h", "a", "r", "g", "e">>,  \* charge
            <<"c", "i", "r", "c", "u", "i", "t">>,  \* circuit
            <<"r", "e", "s", "i", "s", "t", "a", "n", "c", "e">>,  \* resistance
            <<"c", "a", "p", "a", "c", "i", "t", "o", "r">>  \* capacitor
         >>],
        [topic |-> <<"m", "e", "c", "h", "a", "n", "i", "c", "s">>,  \* mechanics
         keywords |-> <<
            <<"f", "o", "r", "c", "e">>,  \* force
            <<"v", "e", "l", "o", "c", "i", "t", "y">>,  \* velocity
            <<"a", "c", "c", "e", "l", "e", "r", "a", "t", "i", "o", "n">>,  \* acceleration
            <<"m", "o", "t", "i", "o", "n">>,  \* motion
            <<"m", "o", "m", "e", "n", "t", "u", "m">>,  \* momentum
            <<"f", "r", "i", "c", "t", "i", "o", "n">>,  \* friction
            <<"m", "a", "s", "s">>  \* mass
         >>],
        [topic |-> <<"o", "p", "t", "i", "c", "s">>,  \* optics
         keywords |-> <<
            <<"l", "i", "g", "h", "t">>,  \* light
            <<"l", "e", "n", "s">>,  \* lens
            <<"r", "e", "f", "l", "e", "c", "t", "i", "o", "n">>,  \* reflection
            <<"r", "e", "f", "r", "a", "c", "t", "i", "o", "n">>,  \* refraction
            <<"m", "i", "r", "r", "o", "r">>,  \* mirror
            <<"o", "p", "t", "i", "c", "a", "l">>  \* optical
         >>],
        [topic |-> <<"t", "h", "e", "r", "m", "o", "d", "y", "n", "a", "m", "i", "c", "s">>,  \* thermodynamics
         keywords |-> <<
            <<"h", "e", "a", "t">>,  \* heat
            <<"t", "e", "m", "p", "e", "r", "a", "t", "u", "r", "e">>,  \* temperature
            <<"t", "h", "e", "r", "m", "a", "l">>,  \* thermal
            <<"i", "s", "o", "t", "h", "e", "r", "m", "a", "l">>,  \* isothermal
            <<"a", "d", "i", "a", "b", "a", "t", "i", "c">>,  \* adiabatic
            <<"e", "n", "t", "r", "o", "p", "y">>  \* entropy
         >>],
        [topic |-> <<"m", "a", "g", "n", "e", "t", "i", "s", "m">>,  \* magnetism
         keywords |-> <<
            <<"m", "a", "g", "n", "e", "t", "i", "c">>,  \* magnetic
            <<"f", "l", "u", "x">>,  \* flux
            <<"i", "n", "d", "u", "c", "t", "i", "o", "n">>,  \* induction
            <<"m", "a", "g", "n", "e", "t">>  \* magnet
         >>],
        [topic |-> <<"m", "o", "d", "e", "r", "n", "_", "p", "h", "y", "s", "i", "c", "s">>,  \* modern_physics
         keywords |-> <<
            <<"q", "u", "a", "n", "t", "u", "m">>,  \* quantum
            <<"p", "h", "o", "t", "o", "n">>,  \* photon
            <<"n", "u", "c", "l", "e", "a", "r">>,  \* nuclear
            <<"r", "a", "d", "i", "o", "a", "c", "t", "i", "v", "e">>,  \* radioactive
            <<"a", "t", "o", "m">>,  \* atom
            <<"e", "l", "e", "c", "t", "r", "o", "n">>  \* electron
         >>]
     >>],
    [subject |-> <<"c", "h", "e", "m", "i", "s", "t", "r", "y">>,  \* chemistry
     topics |-> <<
        [topic |-> <<"a", "t", "o", "m", "i", "c", "_", "s", "t", "r", "u", "c", "t", "u", "r", "e">>,  \* atomic_structure
         keywords |-> <<
            <<"a", "t", "o", "m">>,  \* atom
            <<"e", "l", "e", "c", "t", "r", "o", "n">>,  \* electron
            <<"o", "r", "b", "i", "t", "a", "l">>,  \* orbital
            <<"q", "u", "a", "n", "t", "u", "m", " ", "n", "u", "m", "b", "e", "r">>,  \* quantum number
            <<"s", "h", "e", "l", "l">>  \* shell
         >>],
        [topic |-> <<"b", "o", "n", "d", "i", "n", "g">>,  \* bonding
         keywords |-> <<
            <<"b", "o", "n", "d">>,  \* bond
            <<"c", "o", "v", "a", "l", "e", "n", "t">>,  \* covalent
            <<"i", "o", "n", "i", "c">>,  \* ionic
            <<"m", "e", "t", "a", "l", "l", "i", "c">>,  \* metallic
            <<"h", "y", "b", "r", "i", "d", "i", "z", "a", "t", "i", "o", "n">>  \* hybridization
         >>],
        [topic |-> <<"o", "r", "g", "a", "n", "i", "c">>,  \* organic
         keywords |-> <<
            <<"a", "l", "k", "a", "n", "e">>,  \* alkane
            <<"a", "l", "k", "e", "n", "e">>,  \* alkene
            <<"a", "l", "k", "y", "n", "e">>,  \* alkyne
            <<"b", "e", "n", "z", "e", "n", "e">>,  \* benzene
            <<"a", "r", "o", "m", "a", "t", "i", "c">>,  \* aromatic
            <<"f", "u", "n", "c", "t", "i", "o", "n", "a", "l", " ", "g", "r", "o", "u", "p">>,  \* functional group
            <<"h", "y", "d", "r", "o", "c", "a", "r", "b", "o", "n">>  \* hydrocarbon
         >>],
        [topic |-> <<"a", "c", "i", "d", "s", "_", "b", "a", "s", "e", "s">>,  \* acids_bases
         keywords |-> <<
            <<"a", "c", "i", "d">>,  \* acid
            <<"b", "a", "s", "e">>,  \* base
            <<"p", "H">>,  \* pH
            <<"b", "u", "f", "f", "e", "r">>,  \* buffer
            <<"n", "e", "u", "t", "r", "a", "l", "i", "z", "a", "t", "i", "o", "n">>  \* neutralization
         >>],
        [topic |-> <<"r", "e", "a", "c", "t", "i", "o", "n", "s">>,  \* reactions
         keywords |-> <<
            <<"r", "e", "a", "c", "t", "i", "o", "n">>,  \* reaction
            <<"o", "x", "i", "d", "a", "t", "i", "o", "n">>,  \* oxidation
            <<"r", "e", "d", "u", "c", "t", "i", "o", "n">>,  \* reduction
            <<"r", "e", "d", "o", "x">>,  \* redox
            <<"c", "a", "t", "a", "l", "y", "s", "t">>  \* catalyst
         >>],
        [topic |-> <<"p", "e", "r", "i", "o", "d", "i", "c", "_", "t", "a", "b", "l", "e">>,  \* periodic_table
         keywords |-> <<
            <<"p", "e", "r", "i", "o", "d", "i", "c">>,  \* periodic
            <<"g", "r", "o", "u", "p">>,  \* group
            <<"p", "e", "r", "i", "o", "d">>,  \* period
            <<"a", "l", "k", "a", "l", "i">>,  \* alkali
            <<"h", "a", "l", "o", "g", "e", "n">>  \* halogen
         >>],
        [topic |-> <<"t", "h", "e", "r", "m", "o", "c", "h", "e", "m", "i", "s", "t", "r", "y">>,  \* thermochemistry
         keywords |-> <<
            <<"e", "n", "t", "h", "a", "l", "p", "y">>,  \* enthalpy
            <<"e", "n", "t", "r", "o", "p", "y">>,  \* entropy
            <<"e", "x", "o", "t", "h", "e", "r", "m", "i", "c">>,  \* exothermic
            <<"e", "n", "d", "o", "t", "h", "e", "r", "m", "i", "c">>  \* endothermic
         >>]
     >>],
    [subject |-> <<"m", "a", "t", "h", "e", "m", "a", "t", "i", "c", "s">>,  \* mathematics
     topics |-> <<
        [topic |-> <<"c", "a", "l", "c", "u", "l", "u", "s">>,  \* calculus
         keywords |-> <<
            <<"d", "e", "r", "i", "v", "a", "t", "i", "v", "e">>,  \* derivative
            <<"i", "n", "t", "e", "g", "r", "a", "l">>,  \* integral
            <<"l", "i", "m", "i", "t">>,  \* limit
            <<"d", "i", "f", "f", "e", "r", "e", "n", "t", "i", "a", "t", "i", "o", "n">>,  \* differentiation
            <<"i", "n", "t", "e", "g", "r", "a", "t", "i", "o", "n">>,  \* integration
            <<"a", "n", "t", "i", "d", "e", "r", "i", "v", "a", "t", "i", "v", "e">>  \* antiderivative
         >>],
        [topic |-> <<"t", "r", "i", "g", "o", "n", "o", "m", "e", "t", "r", "y">>,  \* trigonometry
         keywords |-> <<
            <<"s", "i", "n", "e">>,  \* sine
            <<"c", "o", "s", "i", "n", "e">>,  \* cosine
            <<"t", "a", "n", "g", "e", "n", "t">>,  \* tangent
            <<"s", "e", "c", "a", "n", "t">>,  \* secant
            <<"c", "o", "s", "e", "c", "a", "n", "t">>,  \* cosecant
            <<"c", "o", "t", "a", "n", "g", "e", "n", "t">>,  \* cotangent
            <<"i", "n", "v", "e", "r", "s", "e">>  \* inverse
         >>],
        [topic |-> <<"p", "r", "o", "b", "a", "b", "i", "l", "i", "t", "y">>,  \* probability
         keywords |-> <<
            <<"p", "r", "o", "b", "a", "b", "i", "l", "i", "t", "y">>,  \* probability
            <<"d", "i", "c", "e">>,  \* dice
            <<"s", "a", "m", "p", "l", "e", " ", "s", "p", "a", "c", "e">>,  \* sample space
            <<"e", "v", "e", "n", "t">>,  \* event
            <<"o", "u", "t", "c", "o", "m", "e">>,  \* outcome
            <<"p", "e", "r", "m", "u", "t", "a", "t", "i", "o", "n">>,  \* permutation
            <<"c", "o", "m", "b", "i", "n", "a", "t", "i", "o", "n">>  \* combination
         >>],
        [topic |-> <<"a", "l", "g", "e", "b", "r", "a">>,  \* algebra
         keywords |-> <<
            <<"e", "q", "u", "a", "t", "i", "o", "n">>,  \* equation
            <<"p", "o", "l", "y", "n", "o", "m", "i", "a", "l">>,  \* polynomial
            <<"r", "o", "o", "t", "s">>,  \* roots
            <<"f", "u", "n", "c", "t", "i", "o", "n">>,  \* function
            <<"q", "u", "a", "d", "r", "a", "t", "i", "c">>,  \* quadratic
            <<"l", "i", "n", "e", "a", "r">>  \* linear
         >>],
        [topic |-> <<"g", "e", "o", "m", "e", "t", "r", "y">>,  \* geometry
         keywords |-> <<
            <<"c", "i", "r", "c", "l", "e">>,  \* circle
            <<"p", "a", "r", "a", "b", "o", "l", "a">>,  \* parabola
            <<"e", "l", "l", "i", "p", "s", "e">>,  \* ellipse
            <<"h", "y", "p", "e", "r", "b", "o", "l", "a">>,  \* hyperbola
            <<"c", "o", "o", "r", "d", "i", "n", "a", "t", "e">>,  \* coordinate
            <<"d", "i", "s", "t", "a", "n", "c", "e">>  \* distance
         >>],
        [topic |-> <<"s", "e", "q", "u", "e", "n", "c", "e", "s">>,  \* sequences
         keywords |-> <<
            <<"s", "e", "q", "u", "e", "n", "c", "e">>,  \* sequence
            <<"s", "e", "r", "i", "e", "s">>,  \* series
            <<"a", "r", "i", "t", "h", "m", "e", "t", "i", "c">>,  \* arithmetic
            <<"g", "e", "o", "m", "e", "t", "r", "i", "c">>,  \* geometric
            <<"p", "r", "o", "g", "r", "e", "s", "s", "i", "o", "n">>  \* progression
         >>],
        [topic |-> <<"s", "e", "t", "s">>,  \* sets
         keywords |-> <<
            <<"s", "e", "t">>,  \* set
            <<"s", "u", "b", "s", "e", "t">>,  \* subset
            <<"u", "n", "i", "o", "n">>,  \* union
            <<"i", "n", "t", "e", "r", "s", "e", "c", "t", "i", "o", "n">>,  \* intersection
            <<"c", "o", "m", "p", "l", "e", "m", "e", "n", "t">>  \* complement
         >>],
        [topic |-> <<"c", "o", "m", "p", "l", "e", "x", "_", "n", "u", "m", "b", "e", "r", "s">>,  \* complex_numbers
         keywords |-> <<
            <<"c", "o", "m", "p", "l", "e", "x">>,  \* complex
            <<"i", "m", "a", "g", "i", "n", "a", "r", "y">>,  \* imaginary
            <<"r", "e", "a", "l">>,  \* real
            <<"c", "o", "n", "j", "u", "g", "a", "t", "e">>  \* conjugate
         >>],
        [topic |-> <<"m", "a", "t", "r", "i", "c", "e", "s">>,  \* matrices
         keywords |-> <<
            <<"m", "a", "t", "r", "i", "x">>,  \* matrix
            <<"d", "e", "t", "e", "r", "m", "i", "n", "a", "n", "t">>,  \* determinant
            <<"i", "n", "v", "e", "r", "s", "e">>,  \* inverse
            <<"t", "r", "a", "n", "s", "p", "o", "s", "e">>  \* transpose
         >>]
     >>],
    [subject |-> <<"b", "i", "o", "l", "o", "g", "y">>,  \* biology
     topics |-> <<
        [topic |-> <<"c", "e", "l", "l">>,  \* cell
         keywords |-> <<
            <<"c", "e", "l", "l">>,  \* cell
            <<"m", "e", "m", "b", "r", "a", "n", "e">>,  \* membrane
            <<"n", "u", "c", "l", "e", "u", "s">>,  \* nucleus
            <<"o", "r", "g", "a", "n", "e", "l", "l", "e">>,  \* organelle
            <<"c", "y", "t", "o", "p", "l", "a", "s", "m">>,  \* cytoplasm
            <<"m", "i", "t", "o", "c", "h", "o", "n", "d", "r", "i", "a">>  \* mitochondria
         >>],
        [topic |-> <<"g", "e", "n", "e", "t", "i", "c", "s">>,  \* genetics
         keywords |-> <<
            <<"D", "N", "A">>,  \* DNA
            <<"R", "N", "A">>,  \* RNA
            <<"g", "e", "n", "e">>,  \* gene
            <<"c", "h", "r", "o", "m", "o", "s", "o", "m", "e">>,  \* chromosome
            <<"m", "u", "t", "a", "t", "i", "o", "n">>,  \* mutation
            <<"a", "l", "l", "e", "l", "e">>,  \* allele
            <<"h", "e", "r", "e", "d", "i", "t", "y">>  \* heredity
         >>],
        [topic |-> <<"m", "e", "t", "a", "b", "o", "l", "i", "s", "m">>,  \* metabolism
         keywords |-> <<
            <<"r", "e", "s", "p", "i", "r", "a", "t", "i", "o", "n">>,  \* respiration
            <<"p", "h", "o", "t", "o", "s", "y", "n", "t", "h", "e", "s", "i", "s">>,  \* photosynthesis
            <<"A", "T", "P">>,  \* ATP
            <<"g", "l", "y", "c", "o", "l", "y", "s", "i", "s">>,  \* glycolysis
            <<"k", "r", "e", "b", "s">>  \* krebs
         >>],
        [topic |-> <<"e", "v", "o", "l", "u", "t", "i", "o", "n">>,  \* evolution
         keywords |-> <<
            <<"e", "v", "o", "l", "u", "t", "i", "o", "n">>,  \* evolution
            <<"n", "a", "t", "u", "r", "a", "l", " ", "s", "e", "l", "e", "c", "t", "i", "o", "n">>,  \* natural selection
            <<"a", "d", "a", "p", "t", "a", "t", "i", "o", "n">>,  \* adaptation
            <<"s", "p", "e", "c", "i", "e", "s">>  \* species
         >>],
        [topic |-> <<"e", "c", "o", "l", "o", "g", "y">>,  \* ecology
         keywords |-> <<
            <<"e", "c", "o", "s", "y", "s", "t", "e", "m">>,  \* ecosystem
            <<"f", "o", "o", "d", " ", "c", "h", "a", "i", "n">>,  \* food chain
            <<"b", "i", "o", "d", "i", "v", "e", "r", "s", "i", "t", "y">>  \* biodiversity
         >>]
     >>],
    [subject |-> <<"e", "n", "g", "l", "i", "s", "h">>,  \* english
     topics |-> <<
        [topic |-> <<"g", "r", "a", "m", "m", "a", "r">>,  \* grammar
         keywords |-> <<
            <<"g", "r", "a", "m", "m", "a", "r">>,  \* grammar
            <<"n", "o", "u", "n">>,  \* noun
            <<"v", "e", "r", "b">>,  \* verb
            <<"a", "d", "j", "e", "c", "t", "i", "v", "e">>,  \* adjective
            <<"t", "e", "n", "s", "e">>,  \* tense
            <<"s", "e", "n", "t", "e", "n", "c", "e">>  \* sentence
         >>],
        [topic |-> <<"v", "o", "c", "a", "b", "u", "l", "a", "r", "y">>,  \* vocabulary
         keywords |-> <<
            <<"s", "y", "n", "o", "n", "y", "m">>,  \* synonym
            <<"a", "n", "t", "o", "n", "y", "m">>,  \* antonym
            <<"m", "e", "a", "n", "i", "n", "g">>,  \* meaning
            <<"v", "o", "c", "a", "b", "u", "l", "a", "r", "y">>  \* vocabulary
         >>]
     >>]
>>

\* str.title(): a letter after a character that is no letter is made
\* uppercase, every other letter lowercase
title(s) ==
    [k \in 1..Len(s) |->
        IF k = 1 \/ s[k - 1] \notin (UpperLetter \cup LowerLetter)
        THEN upper_char(s[k]) ELSE lower_char(s[k])]

\* str.replace(old, new) for single characters
replace(s, old, new) == [k \in 1..Len(s) |-> IF s[k] = old THEN new ELSE s[k]]

\* lines 86-93: the keywords of a topic that are in the text, in order
matched_keywords(keywords, text_lower) ==
    SelectSeq(keywords, LAMBDA keyword : contains(text_lower, keyword))

\* scan_topics with >= in the comparison of line 95: the last topic with
\* the best score is kept
RECURSIVE scan_topics_last(_, _, _, _)
scan_topics_last(topics, k, text_lower, best) ==
    IF k > Len(topics) THEN best
    ELSE LET matched == matched_keywords(topics[k].keywords, text_lower)
             score == Len(matched)
         IN  scan_topics_last(topics, k + 1, text_lower,
                              IF score >= best.score /\ score > 0
                              THEN [topic |-> topics[k].topic, score |-> score,
                                    tags |-> matched]
                              ELSE best)

\* lines 86-98: the loop over the topics of the subject, from the k-th on
RECURSIVE scan_topics(_, _, _, _)
scan_topics(topics, k, text_lower, best) ==
    IF k > Len(topics) THEN best
    ELSE LET matched == matched_keywords(topics[k].keywords, text_lower)
             score == Len(matched)
         IN  scan_topics(topics, k + 1, text_lower,
                         IF score > best.score
                         THEN [topic |-> topics[k].topic, score |-> score, tags |-> matched]
                         ELSE best)

\* lines 67-101
find_topic(text, subject) ==
    LET text_lower == lower(text)
        known == {k \in 1..Len(TOPICS) : TOPICS[k].subject = subject}
    IN  IF known = {} THEN [topic |-> None, tags |-> <<>>]
        ELSE LET best == scan_topics(TOPICS[CHOOSE k \in known : TRUE].topics, 1, text_lower,
                                     [topic |-> None, score |-> 0, tags |-> <<>>])
             IN  [topic |-> best.topic,
                  tags |-> SubSeq(best.tags, 1, IF Len(best.tags) > 5 THEN 5 ELSE Len(best.tags))]

\* question[key] = value on a dict
dict_set(d, key, value) ==
    [k \in DOMAIN d \cup {key} |-> IF k = key THEN value ELSE d[k]]

\* lines 196-201: every option dict gets the key is_correct
mark_options(options, correct) ==
    [o \in 1..Len(options) |->
        dict_set(options[o], "is_correct",
                 IF truthy(correct) THEN options[o].label = correct ELSE None)]

\* lines 222-224: the text of the first option with the label, or None
RECURSIVE correct_text_of(_, _, _)
correct_text_of(options, correct, k) ==
    IF k > Len(options) THEN None
    ELSE IF options[k].label = correct THEN options[k].text
    ELSE correct_text_of(options, correct, k + 1)

\* enhanced_embedding_text with the new text put after the one the
\* question has
enhanced_embedding_text_appended(question, topic, tags) ==
    question.embedding_text \o <<" ">> \o title(question.subject)

\* lines 203-228: the embedding text
enhanced_embedding_text(question, topic, tags) ==
    LET correct == question.correct_answer
        context ==
            IF truthy(topic)
            THEN title(question.subject) \o <<" ">> \o replace(topic, "_", " ")
            ELSE title(question.subject)
        correct_text == correct_text_of(question.options, correct, 1)
        parts ==
            (IF truthy(question.subject) THEN <<context \o <<":">> >> ELSE <<>>)
            \o <<question.question_text>>
            \o (IF tags # <<>>
                THEN << <<"C", "o", "n", "c", "e", "p", "t", "s", ":", " ">>
                        \o join(<<" ">>, tags) >>
                ELSE <<>>)
            \o (IF truthy(correct) /\ truthy(correct_text)
                THEN << <<"A", "n", "s", "w", "e", "r", ":", " ">> \o correct_text >>
                ELSE <<>>)
    IN  join(<<" ">>, parts)

\* lines 187-230: the assignments to the dict that was passed in, with the
\* locals topic, tags (found) and score already computed
enhance_with(question, found, score) ==
    LET q1 == dict_set(question, "topic", found.topic)
        q2 == dict_set(q1, "tags", found.tags)
        q3 == dict_set(q2, "difficulty", get_difficulty_level(score))
        q4 == dict_set(q3, "difficulty_score", score)
        q5 == dict_set(q4, "options", mark_options(question.options, question.correct_answer))
    IN  dict_set(q5, "embedding_text", enhanced_embedding_text(q5, found.topic, found.tags))

\* lines 175-232: the dict that was passed in, as the assignments leave it.
\* find_topic and calculate_difficulty_score are called once each and their
\* values kept in locals (lines 186 and 191).
enhance_question(question) ==
    CHOOSE enhanced \in
        {enhance_with(question, found, score) :
            found \in {find_topic(question.question_text, question.subject)},
            score \in {calculate_difficulty_score(question.question_text, question.options)}} :
        TRUE

(***************************************************************************)
(* Bounds and inputs                                                       *)
(***************************************************************************)
\* the longest document, in lines, of the freely combined inputs
MaxLines == 4

\* the lines a document is made of: a whitespace-only line, two
\* question-starts (the second one's text is an exam tag and nothing else),
\* three option-starts (one carrying the marker), a continuation line that
\* is the marker alone, and a solution-start
LineSet == {
    <<" ">>,
    <<"1", ".", " ", "a", "t", "o", "m">>,                                      \* 1. atom
    <<"Q", ".", "2", " ", "N", "E", "T", " ", "1", "2", " ", "2", "0", "2", "0">>,  \* Q.2 NET 12 2020
    <<"a", ".", " ", "x">>,                                                    \* a. x
    <<"B", ")", " ", "y", " ", "(", "C", "o", "r", "r", "e", "c", "t", ")">>,   \* B) y (Correct)
    <<"c", ".", "z">>,                                                         \* c.z
    <<"(", "C", "O", "R", "R", "E", "C", "T", ")">>,                            \* (CORRECT)
    <<"A", "n", "s", "w", "e", "r", ":", " ", "B">>                             \* Answer: B
}

\* the scenario of the specification: "1. What is the atomic number of
\* Carbon?" with its options a. 6, b. 12, c. 14, d. 16, then a second
\* question in the parenthesis format with "C) Paris (Correct)"
CarbonLines == <<
    <<"1", ".", " ", "W", "h", "a", "t", " ", "i", "s", " ", "t", "h", "e", " ", "a", "t", "o",
      "m", "i", "c", " ", "n", "u", "m", "b", "e", "r", " ", "o", "f", " ", "C", "a", "r", "b",
      "o", "n", "?">>,
    <<"a", ".", " ", "6">>,
    <<"b", ".", " ", "1", "2">>,
    <<"c", ".", " ", "1", "4">>,
    <<"d", ".", " ", "1", "6">>
>>

ParisLines == <<
    <<"2", ")", " ", "C", "a", "p", "i", "t", "a", "l", " ", "o", "f", " ", "F", "r", "a", "n",
      "c", "e", "?">>,
    <<"A", ".", " ", "R", "o", "m", "e">>,
    <<"C", ")", " ", "P", "a", "r", "i", "s", " ", "(", "C", "o", "r", "r", "e", "c", "t", ")">>
>>

\* a question whose two options have the same letter, the second one marked
DupLines == <<
    <<"1", ".", " ", "a", "t", "o", "m">>,
    <<"b", ".", " ", "w">>,
    <<"B", ")", " ", "y", " ", "(", "C", "o", "r", "r", "e", "c", "t", ")">>
>>

\* a question whose solution is followed by an option-start line and by a
\* second solution-start line
SolutionTailLines == <<
    <<"1", ".", " ", "a", "t", "o", "m">>,
    <<"a", ".", " ", "x">>,
    <<"c", ".", "z">>,
    <<"A", "n", "s", "w", "e", "r", ":", " ", "B">>,
    <<"B", ")", " ", "y", " ", "(", "C", "o", "r", "r", "e", "c", "t", ")">>,
    <<"A", "n", "s", "w", "e", "r", ":", " ", "B">>
>>

\* a question whose header and whose first option go on on a second line
ContinuedLines == <<
    <<"1", ".", " ", "a", "t", "o", "m">>,
    <<"n", "u", "m", "b", "e", "r">>,
    <<"a", ".", " ", "x">>,
    <<"o", "r", " ", "y">>,
    <<"c", ".", "z">>
>>

\* every document of at most MaxLines lines of LineSet
FreeDocs ==
    {join(<<"\n">>, ls) : ls \in UNION {[1..n -> LineSet] : n \in 0..MaxLines}}

\* the Carbon question with its first k options, alone or followed by the
\* Paris question; the question with the repeated letter; the question
\* with lines after its solution; the Paris question followed by the
\* Carbon question with two options; the Carbon question, a question-start
\* line with no option and the Paris question; the question with
\* continuation lines
ScenarioDocs ==
    {join(<<"\n">>, SubSeq(CarbonLines, 1, 1 + k) \o rest) :
        k \in 0..4, rest \in {<<>>, ParisLines}}
    \cup {join(<<"\n">>, DupLines), join(<<"\n">>, SolutionTailLines),
          join(<<"\n">>, ParisLines \o SubSeq(CarbonLines, 1, 3)),
          join(<<"\n">>, CarbonLines \o <<DupLines[1]>> \o ParisLines),
          join(<<"\n">>, ContinuedLines)}

Docs == FreeDocs \cup ScenarioDocs

PaperTxt == <<"p", "a", "p", "e", "r", ".", "t", "x", "t">>

Net2019Txt == <<"N", "E", "T", " ", "2", "0", "1", "9", ".", "t", "x", "t">>

FileNames == {PaperTxt, Net2019Txt}

\* The detectors are functions of the line alone: their results on the
\* stripped lines of the inputs, computed once
KnownLines ==
    {strip(l) : l \in LineSet \cup {CarbonLines[k] : k \in 1..Len(CarbonLines)}
                              \cup {ParisLines[k] : k \in 1..Len(ParisLines)}
                              \cup {DupLines[k] : k \in 1..Len(DupLines)}
                              \cup {ContinuedLines[k] : k \in 1..Len(ContinuedLines)}}
    \cup {<<>>}

QuestionStart == [l \in KnownLines |-> detect_question_start(l)]

OptionStart == [l \in KnownLines |-> detect_option(l)]

SolutionStart == [l \in KnownLines |-> detect_solution(l)]

(***************************************************************************)
(* State                                                                   *)
(***************************************************************************)
VARIABLES
    text, source_file,       \* the arguments of parse_questions_from_text
    lines, questions, i,     \* its locals of lines 220-223
    pc,                      \* where the program is
    q_num, question_lines, full_question,
    options, correct_answer, option_format,
    opt_label, option_lines,
    solution_lines, solution,
    h_start, h_raw, h_blocks,\* history: the line at which the open block
                             \* started, the assembled texts of its options
                             \* before the marker is removed, the blocks
                             \* closed so far in this call (the lines they
                             \* span, their header, option and solution
                             \* texts, whether they were emitted)
    text_files, file_index,  \* main.parse_questions: the files found and
                             \* the position of its loop over them
    total_questions, successful, failed,
    h_returned,              \* history: what each finished call was given
                             \* and what it returned
    cs_question_text, cs_options, cs_subject,
                             \* a call of classify_subject: its arguments
                             \* and the value it returns
    fn_args, fn_result,      \* a call of one other function: its arguments
                             \* as they were given, and what it returned
    fn_prev                  \* history: the call before this one, if any

parse_vars == <<text, source_file, lines, questions, i, pc, q_num, question_lines,
                full_question, options, correct_answer, option_format, opt_label,
                option_lines, solution_lines, solution, h_start, h_raw, h_blocks>>

main_vars == <<text_files, file_index, total_questions, successful, failed, h_returned>>

classify_vars == <<cs_question_text, cs_options, cs_subject>>

\* what the parser's steps leave alone
fn_vars == <<fn_args, fn_result, fn_prev>>

other_vars == <<main_vars, classify_vars, fn_vars>>

vars == <<parse_vars, main_vars, classify_vars, fn_vars>>

block_vars == <<q_num, question_lines, full_question, options, correct_answer, option_format,
                opt_label, option_lines, solution_lines, solution, h_start, h_raw>>

\* the locals of a call that has not assigned them yet
FreshLocals ==
    /\ q_num = 0
    /\ question_lines = <<>>
    /\ full_question = <<>>
    /\ options = <<>>
    /\ correct_answer = None
    /\ option_format = "none"
    /\ opt_label = <<>>
    /\ option_lines = <<>>
    /\ solution_lines = <<>>
    /\ solution = None
    /\ h_start = 0
    /\ h_raw = <<>>

\* main.parse_questions is not running
NoMain ==
    /\ text_files = <<>>
    /\ file_index = 0
    /\ total_questions = 0
    /\ successful = 0
    /\ failed = 0
    /\ h_returned = <<>>

\* classify_subject is not being called on its own
NoClassify ==
    /\ cs_question_text = <<>>
    /\ cs_options = <<>>
    /\ cs_subject = None

\* no other function is being called on its own
NoCall ==
    /\ fn_args = None
    /\ fn_result = None
    /\ fn_prev = <<>>

\* enter_parse with the list of line 221 kept from the call before, as an
\* attribute of the parser would be
enter_parse_keep(t) ==
    /\ lines' = split(t, "\n")
    /\ questions' = questions
    /\ i' = 0

\* the first statements of parse_questions_from_text, lines 220-223
enter_parse(t) ==
    /\ lines' = split(t, "\n")
    /\ questions' = <<>>
    /\ i' = 0

\* parse_questions_from_text(text, source_file) is entered
Init ==
    /\ text \in Docs
    /\ source_file \in FileNames
    /\ lines = split(text, "\n")
    /\ questions = <<>>
    /\ i = 0
    /\ pc = "scan"
    /\ FreshLocals
    /\ h_blocks = <<>>
    /\ NoMain
    /\ NoClassify
    /\ NoCall

(***************************************************************************)
(* parse_questions_from_text, one action per loop iteration                *)
(***************************************************************************)
at_end == i >= Len(lines)

\* lines[i].strip()
cur == strip(lines[i + 1])

\* Scan with the i += 1 of line 238 left out: the question-start line is
\* not consumed
Scan_no_advance ==
    /\ pc = "scan"
    /\ IF at_end
       THEN /\ pc' = "done"
            /\ UNCHANGED <<i, block_vars>>
       ELSE LET q_match == QuestionStart[cur]
            IN  IF cur # <<>> /\ q_match.matched
                THEN /\ q_num' = q_match.q_num
                     /\ question_lines' =
                            IF q_match.q_text # <<>> THEN <<q_match.q_text>> ELSE <<>>
                     /\ i' = i
                     /\ pc' = "header"
                     /\ h_start' = i
                     /\ UNCHANGED <<full_question, options, correct_answer, option_format,
                                    opt_label, option_lines, solution_lines, solution, h_raw>>
                ELSE /\ i' = i + 1
                     /\ UNCHANGED <<pc, block_vars>>
    /\ UNCHANGED <<text, source_file, lines, questions, h_blocks>>
    /\ UNCHANGED other_vars

\* the outer loop, lines 224-239 and 366-369
Scan ==
    /\ pc = "scan"
    /\ IF at_end
       THEN /\ pc' = "done"
            /\ UNCHANGED <<i, block_vars>>
       ELSE LET q_match == QuestionStart[cur]
            IN  IF cur # <<>> /\ q_match.matched
                THEN /\ q_num' = q_match.q_num
                     /\ question_lines' =
                            IF q_match.q_text # <<>> THEN <<q_match.q_text>> ELSE <<>>
                     /\ i' = i + 1
                     /\ pc' = "header"
                     /\ h_start' = i
                     /\ UNCHANGED <<full_question, options, correct_answer, option_format,
                                    opt_label, option_lines, solution_lines, solution, h_raw>>
                ELSE /\ i' = i + 1
                     /\ UNCHANGED <<pc, block_vars>>
    /\ UNCHANGED <<text, source_file, lines, questions, h_blocks>>
    /\ UNCHANGED other_vars

\* reset_answer with the answer of the block before kept
reset_answer_kept(previous) == previous

\* line 264: a block starts with no answer, whatever the block before had
reset_answer(previous) == None

\* the header loop, lines 242-258, and after it lines 260-265
Header ==
    /\ pc = "header"
    /\ IF ~at_end /\ cur = <<>>
       THEN /\ i' = i + 1
            /\ UNCHANGED <<pc, question_lines, full_question, options, correct_answer,
                         option_format, h_raw>>
       ELSE IF ~at_end /\ ~OptionStart[cur].matched /\ ~QuestionStart[cur].matched
       THEN /\ question_lines' = Append(question_lines, cur)
            /\ i' = i + 1
            /\ UNCHANGED <<pc, full_question, options, correct_answer, option_format, h_raw>>
       ELSE /\ full_question' = strip(join(<<" ">>, question_lines))
            /\ options' = <<>>
            /\ correct_answer' = reset_answer(correct_answer)
            /\ option_format' = "none"
            /\ h_raw' = <<>>
            /\ pc' = "options"
            /\ UNCHANGED <<i, question_lines>>
    /\ UNCHANGED <<text, source_file, lines, questions, q_num, opt_label,
                   option_lines, solution_lines, solution, h_start, h_blocks>>
    /\ UNCHANGED other_vars

\* the options loop, lines 267-291 and 322-324
Options ==
    /\ pc = "options"
    /\ IF at_end
       THEN /\ pc' = "solcheck"
            /\ UNCHANGED <<i, option_format, opt_label, option_lines>>
       ELSE IF cur = <<>>
       THEN /\ i' = i + 1
            /\ UNCHANGED <<pc, option_format, opt_label, option_lines>>
       ELSE IF truthy(SolutionStart[cur]) \/ QuestionStart[cur].matched
       THEN /\ pc' = "solcheck"
            /\ UNCHANGED <<i, option_format, opt_label, option_lines>>
       ELSE LET opt_match == OptionStart[cur]
            IN  IF opt_match.matched
                THEN /\ opt_label' = opt_match.label
                     /\ option_format' = opt_match.format
                     /\ option_lines' =
                            IF opt_match.text # <<>> THEN <<opt_match.text>> ELSE <<>>
                     /\ i' = i + 1
                     /\ pc' = "optcont"
                ELSE /\ i' = i + 1
                     /\ UNCHANGED <<pc, option_format, opt_label, option_lines>>
    /\ UNCHANGED <<text, source_file, lines, questions, q_num, question_lines, full_question,
                   options, correct_answer, solution_lines, solution, h_start, h_raw, h_blocks>>
    /\ UNCHANGED other_vars

\* close_option with the lines of the option joined by line breaks
close_option_line_breaks(opts, lbl, olines) ==
    LET full_option == strip(join(<<"\n">>, olines))
        extracted == extract_answer_from_option(full_option)
    IN  [options |-> Append(opts, [label |-> lbl, text |-> extracted.text]),
         is_correct |-> extracted.is_correct]

\* lines 310-321: the option is assembled and appended
close_option(opts, lbl, olines) ==
    LET full_option == strip(join(<<" ">>, olines))
        extracted == extract_answer_from_option(full_option)
    IN  [options |-> Append(opts, [label |-> lbl, text |-> extracted.text]),
         is_correct |-> extracted.is_correct]

\* ends_option without the solution test of line 304
ends_option_no_solution(peek_line) ==
    \/ OptionStart[peek_line].matched
    \/ QuestionStart[peek_line].matched

\* lines 301-304: the next option, a question or a solution stops the option
ends_option(peek_line) ==
    \/ OptionStart[peek_line].matched
    \/ QuestionStart[peek_line].matched
    \/ truthy(SolutionStart[peek_line])

\* OptCont with a blank line taken as the end of the option
OptCont_blank_ends ==
    /\ pc = "optcont"
    /\ IF ~at_end /\ cur # <<>> /\ ~(\/ OptionStart[cur].matched
                                    \/ QuestionStart[cur].matched
                                    \/ truthy(SolutionStart[cur]))
       THEN /\ option_lines' = Append(option_lines, cur)
            /\ i' = i + 1
            /\ UNCHANGED <<pc, options, correct_answer, h_raw>>
       ELSE LET full_option == strip(join(<<" ">>, option_lines))
                extracted == extract_answer_from_option(full_option)
            IN  /\ options' = Append(options, [label |-> opt_label, text |-> extracted.text])
                /\ correct_answer' = IF extracted.is_correct THEN opt_label ELSE correct_answer
                /\ h_raw' = Append(h_raw, full_option)
                /\ pc' = "options"
                /\ UNCHANGED <<i, option_lines>>
    /\ UNCHANGED <<text, source_file, lines, questions, q_num, question_lines, full_question,
                   option_format, opt_label, solution_lines, solution, h_start, h_blocks>>
    /\ UNCHANGED other_vars

\* mark_answer with the first marked option kept as the answer
mark_answer_first(current, is_correct, label) ==
    IF is_correct /\ current = None THEN label ELSE current

\* lines 315-316: a marked option becomes the answer
mark_answer(current, is_correct, label) == IF is_correct THEN label ELSE current

\* the option continuation loop, lines 293-308, and after it lines 310-321
OptCont ==
    /\ pc = "optcont"
    /\ IF ~at_end /\ cur = <<>>
       THEN /\ i' = i + 1
            /\ UNCHANGED <<pc, options, correct_answer, option_lines, h_raw>>
       ELSE IF ~at_end /\ ~ends_option(cur)
       THEN /\ option_lines' = Append(option_lines, cur)
            /\ i' = i + 1
            /\ UNCHANGED <<pc, options, correct_answer, h_raw>>
       ELSE LET closed == close_option(options, opt_label, option_lines)
            IN  /\ options' = closed.options
                /\ correct_answer' = mark_answer(correct_answer, closed.is_correct, opt_label)
                /\ h_raw' = Append(h_raw, strip(join(<<" ">>, option_lines)))
                /\ pc' = "options"
                /\ UNCHANGED <<i, option_lines>>
    /\ UNCHANGED <<text, source_file, lines, questions, q_num, question_lines, full_question,
                   option_format, opt_label, solution_lines, solution, h_start, h_blocks>>
    /\ UNCHANGED other_vars

\* lines 327-332: is the line the options loop stopped at a solution?
SolCheck ==
    /\ pc = "solcheck"
    /\ IF ~at_end /\ truthy(SolutionStart[cur])
       THEN /\ solution_lines' = <<SolutionStart[cur]>>
            /\ solution' = None
            /\ i' = i + 1
            /\ pc' = "solution"
       ELSE /\ solution' = None
            /\ pc' = "close"
            /\ UNCHANGED <<i, solution_lines>>
    /\ UNCHANGED <<text, source_file, lines, questions, q_num, question_lines, full_question,
                   options, correct_answer, option_format, opt_label, option_lines,
                   h_start, h_raw, h_blocks>>
    /\ UNCHANGED other_vars

\* ends_solution with an option-start line stopping the solution as well
ends_solution_at_option(peek_line) ==
    QuestionStart[peek_line].matched \/ OptionStart[peek_line].matched

\* ends_solution with the test of line 343 left out: nothing but the end
\* of the input stops the solution
ends_solution_never(peek_line) == FALSE

\* lines 343-344: the next question stops the solution
ends_solution(peek_line) == QuestionStart[peek_line].matched

\* the solution loop, lines 335-347, and after it line 349
Solution ==
    /\ pc = "solution"
    /\ IF ~at_end /\ cur = <<>>
       THEN /\ i' = i + 1
            /\ UNCHANGED <<pc, solution_lines, solution>>
       ELSE IF ~at_end /\ ~ends_solution(cur)
       THEN /\ solution_lines' = Append(solution_lines, cur)
            /\ i' = i + 1
            /\ UNCHANGED <<pc, solution>>
       ELSE /\ solution' = strip(join(<<" ">>, solution_lines))
            /\ pc' = "close"
            /\ UNCHANGED <<i, solution_lines>>
    /\ UNCHANGED <<text, source_file, lines, questions, q_num, question_lines, full_question,
                   options, correct_answer, option_format, opt_label, option_lines,
                   h_start, h_raw, h_blocks>>
    /\ UNCHANGED other_vars

\* promoted with two options not being enough
promoted_three_options(question, opts) == question # <<>> /\ Len(opts) > 2

\* promoted with one option being enough
promoted_one_option(question, opts) == question # <<>> /\ Len(opts) >= 1

\* line 352: the promotion rule
promoted(question, opts) == question # <<>> /\ Len(opts) >= 2

\* Close with a dropped block read again from the line after its
\* question-start line
Close_rescan ==
    /\ pc = "close"
    /\ questions' =
           IF promoted(full_question, options)
           THEN Append(questions, create_question(q_num, full_question, options,
                                                  correct_answer, solution, source_file))
           ELSE questions
    /\ h_blocks' = Append(h_blocks, [start |-> h_start, end |-> i, raw |-> h_raw,
                                     header |-> full_question, solution |-> solution,
                                     n_options |-> Len(options),
                                     emitted |-> promoted(full_question, options)])
    /\ i' = IF promoted(full_question, options) THEN i ELSE h_start + 1
    /\ pc' = "scan"
    /\ UNCHANGED <<text, source_file, lines, block_vars>>
    /\ UNCHANGED other_vars

\* Close with the block that is open when the input ends left out: it is
\* neither emitted nor dropped
Close_not_at_end ==
    /\ pc = "close"
    /\ questions' =
           IF ~at_end /\ promoted(full_question, options)
           THEN Append(questions, create_question(q_num, full_question, options,
                                                  correct_answer, solution, source_file))
           ELSE questions
    /\ h_blocks' =
           IF at_end THEN h_blocks
           ELSE Append(h_blocks, [start |-> h_start, end |-> i, raw |-> h_raw,
                                  header |-> full_question, solution |-> solution,
                                  n_options |-> Len(options),
                                  emitted |-> promoted(full_question, options)])
    /\ pc' = "scan"
    /\ UNCHANGED <<text, source_file, lines, i, block_vars>>
    /\ UNCHANGED other_vars

\* add_question with the Question put before the ones already there
add_question_first(qs, question) == <<question>> \o qs

\* line 361: questions.append(question)
add_question(qs, question) == Append(qs, question)

\* lines 351-362: the block is emitted or dropped
Close ==
    /\ pc = "close"
    /\ questions' =
           IF promoted(full_question, options)
           THEN add_question(questions,
                             create_question(q_num, full_question, options,
                                             correct_answer, solution, source_file))
           ELSE questions
    /\ h_blocks' = Append(h_blocks, [start |-> h_start, end |-> i, raw |-> h_raw,
                                     header |-> full_question, solution |-> solution,
                                     n_options |-> Len(options),
                                     emitted |-> promoted(full_question, options)])
    /\ pc' = "scan"
    /\ UNCHANGED <<text, source_file, lines, i, block_vars>>
    /\ UNCHANGED other_vars

Next == Scan \/ Header \/ Options \/ OptCont \/ SolCheck \/ Solution \/ Close

Spec == Init /\ [][Next]_vars

(***************************************************************************)
(* Properties of parse_questions_from_text                                 *)
(***************************************************************************)
\* C1: every Question the call returns has at least two options and a
\* question_text (as stored, after clean_text) that is non-empty after
\* trimming
C1_EmittedQuestionsValid ==
    \A k \in 1..Len(questions) :
        /\ Len(questions[k].options) >= 2
        /\ strip(questions[k].question_text) # <<>>

\* C2: in every Question the call returns, every option label is an
\* uppercase letter and no label is on two options
C2_LabelsUppercaseUnique ==
    \A k \in 1..Len(questions) :
        LET opts == questions[k].options
        IN  /\ \A a \in 1..Len(opts) : opts[a].label \in {<<c>> : c \in UpperLetter}
            /\ \A a, b \in 1..Len(opts) : a # b => opts[a].label # opts[b].label

\* where the parser is, as a number that falls whenever a loop is left
LoopRank ==
    [optcont |-> 7, header |-> 6, options |-> 5, solcheck |-> 4, solution |-> 3,
     close |-> 2, scan |-> 1, done |-> 0]

\* the lines not yet consumed, then the loops not yet left
Measure == (Len(lines) - i) * 8 + LoopRank[pc]

\* C3: every iteration of the outer loop and of each inner loop advances the
\* line index or leaves its loop, the index never passes the end of the
\* lines, and so the call returns after a bounded number of iterations
C3_EveryIterationProgresses ==
    [][/\ (i' = i + 1 /\ i' <= Len(lines)) \/ (i' = i /\ pc' # pc)
       /\ Measure' < Measure
       /\ Measure' >= 0]_vars

\* the call has returned after going through the header, options and
\* solution loops and emitting a Question
C3_Witness ==
    /\ pc = "done"
    /\ i = Len(lines)
    /\ \E k \in 1..Len(questions) : questions[k].solution # None

\* the stripped line at index j, counted from 0 as the parser counts
LineAt(j) == strip(lines[j + 1])

\* the Question made from block b, a block that was emitted
QuestionOf(b) == questions[Cardinality({c \in 1..b : h_blocks[c].emitted})]

StartsWith(s, w) == Len(s) >= Len(w) /\ SubSeq(s, 1, Len(w)) = w

\* the text ends with "(Correct)" in any letter case
EndsWithMarker(t) ==
    /\ Len(t) >= 9
    /\ lower(SubSeq(t, Len(t) - 8, Len(t))) = <<"(", "c", "o", "r", "r", "e", "c", "t", ")">>

\* the text before the marker, trimmed
WithoutMarker(t) == strip(SubSeq(t, 1, Len(t) - 9))

\* the options of block b whose assembled text ends with the marker
MarkedOptions(b) == {o \in 1..Len(h_blocks[b].raw) : EndsWithMarker(h_blocks[b].raw[o])}

\* C6 as stated: an option whose assembled text ends with the marker is
\* emitted with the marker removed and the text trimmed, and the Question's
\* correct_answer is the label of that option
C6_MarkedOptionIsAnswer ==
    \A b \in 1..Len(h_blocks) :
        h_blocks[b].emitted =>
            \A o \in MarkedOptions(b) :
                /\ QuestionOf(b).options[o].text = WithoutMarker(h_blocks[b].raw[o])
                /\ QuestionOf(b).correct_answer = QuestionOf(b).options[o].label

\* C6, amended: an option whose assembled text ends with the marker is
\* emitted with the marker removed and the text trimmed, and the Question's
\* correct_answer is the uppercase label of the last such option of the
\* block; a text that ends with "C) Paris (Correct)" ends with a Question
\* whose last option is {label "C", text "Paris"} and whose answer is "C"
C6_LastMarkedOptionIsAnswer ==
    /\ \A b \in 1..Len(h_blocks) :
           (h_blocks[b].emitted /\ MarkedOptions(b) # {}) =>
               LET last == CHOOSE o \in MarkedOptions(b) : \A m \in MarkedOptions(b) : m <= o
               IN  /\ \A o \in MarkedOptions(b) :
                          QuestionOf(b).options[o].text = WithoutMarker(h_blocks[b].raw[o])
                   /\ QuestionOf(b).correct_answer = QuestionOf(b).options[last].label
                   /\ QuestionOf(b).correct_answer \in {<<c>> : c \in UpperLetter}
    /\ (pc = "done" /\ lines # <<>> /\ lines[Len(lines)] = ParisLines[3] /\ questions # <<>>) =>
           LET q == questions[Len(questions)]
           IN  /\ q.options[Len(q.options)] = [label |-> <<"C">>, text |-> <<"P", "a", "r", "i", "s">>]
               /\ q.correct_answer = <<"C">>

\* a Question was returned for a block with two marked options of different
\* labels, the first of them marked in capitals on a line of its own
C6_Witness ==
    \E b \in 1..Len(h_blocks) :
        /\ h_blocks[b].emitted
        /\ \E o, m \in MarkedOptions(b) :
               /\ o < m
               /\ QuestionOf(b).options[o].label # QuestionOf(b).options[m].label
               /\ QuestionOf(b).correct_answer = QuestionOf(b).options[m].label

\* Sol, Solution, Answer or Explanation in any letter case, then ':' and a
\* remainder that is not empty
SolutionWords == {
    <<"s", "o", "l">>,
    <<"s", "o", "l", "u", "t", "i", "o", "n">>,
    <<"a", "n", "s", "w", "e", "r">>,
    <<"e", "x", "p", "l", "a", "n", "a", "t", "i", "o", "n">>
}

IsSolutionLine(l) ==
    \E w \in SolutionWords :
        /\ StartsWith(lower(l), w)
        /\ LET rest == lstrip(SubSeq(l, Len(w) + 1, Len(l)))
           IN  /\ rest # <<>>
               /\ rest[1] = ":"
               /\ strip(Tail(rest)) # <<>>

\* what follows the first ':' of the line, trimmed
SolutionRemainder(l) ==
    LET colon == CHOOSE c \in 1..Len(l) : l[c] = ":" /\ \A d \in 1..(c - 1) : l[d] # ":"
    IN  strip(SubSeq(l, colon + 1, Len(l)))

\* the option-start lines of block b
OptionLinesOf(b) ==
    {j \in (h_blocks[b].start + 1)..(h_blocks[b].end - 1) : OptionStart[LineAt(j)].matched}

\* the solution-start lines of block b that come after its first option
SolutionLinesOf(b) ==
    {j \in (h_blocks[b].start + 1)..(h_blocks[b].end - 1) :
        /\ IsSolutionLine(LineAt(j))
        /\ \E o \in OptionLinesOf(b) : o < j}

\* C7: the first solution-start line after the options of a block closes the
\* option that was open (the block has one option for each option-start
\* line before it, and the line is in none of them), it starts no block of
\* its own, and the Question of the block, if one is returned, has a
\* solution that begins with the remainder of the line
C7_SolutionLineStartsSolution ==
    \A b \in 1..Len(h_blocks) :
        SolutionLinesOf(b) # {} =>
            LET j == CHOOSE x \in SolutionLinesOf(b) : \A y \in SolutionLinesOf(b) : x <= y
            IN  /\ h_blocks[b].n_options = Cardinality({o \in OptionLinesOf(b) : o < j})
                /\ \A o \in 1..Len(h_blocks[b].raw) : ~contains(h_blocks[b].raw[o], LineAt(j))
                /\ \A c \in 1..Len(h_blocks) : h_blocks[c].start # j
                /\ h_blocks[b].emitted =>
                       /\ QuestionOf(b).solution # None
                       /\ StartsWith(QuestionOf(b).solution, SolutionRemainder(LineAt(j)))
                       /\ Len(QuestionOf(b).options) = h_blocks[b].n_options

\* a Question was returned whose block had "Answer: B" after its options:
\* its solution is "B"
C7_Witness ==
    \E b \in 1..Len(h_blocks) :
        /\ h_blocks[b].emitted
        /\ SolutionLinesOf(b) # {}
        /\ QuestionOf(b).solution = <<"B">>

\* the letter that starts the line, in capitals
LabelOf(l) == upper(<<l[1]>>)

\* an option-start line that does not end with the marker
IsPlainOptionLine(l) == OptionStart[l].matched /\ ~EndsWithMarker(l)

\* at index s is a question-start "<n>. <text>", then come exactly k option
\* lines with different letters and no marker, then the text ends or a
\* question starts
PlainBlockAt(s, k) ==
    /\ s + k < Len(lines)
    /\ QuestionStart[LineAt(s)].matched
    /\ QuestionStart[LineAt(s)].format = "dot"
    /\ \A m \in 1..k : IsPlainOptionLine(LineAt(s + m))
    /\ \A m, r \in 1..k : m # r => LabelOf(LineAt(s + m)) # LabelOf(LineAt(s + r))
    /\ (s + k + 1 = Len(lines) \/ QuestionStart[LineAt(s + k + 1)].matched)

\* the number before the first '.' of the line
NumberOf(l) ==
    LET dot == CHOOSE c \in 1..Len(l) : l[c] = "." /\ \A d \in 1..(c - 1) : l[d] # "."
    IN  int(SubSeq(l, 1, dot - 1))

\* C8: such lines give exactly one Question: its number is n, it has the k
\* options in the order of the lines, labelled with the letters in
\* capitals, and its correct_answer is None
C8_PlainBlockGivesOneQuestion ==
    pc = "done" =>
        \A s \in 0..(Len(lines) - 1), k \in 2..4 :
            PlainBlockAt(s, k) =>
                /\ Cardinality({b \in 1..Len(h_blocks) : h_blocks[b].start = s}) = 1
                /\ LET b == CHOOSE c \in 1..Len(h_blocks) : h_blocks[c].start = s
                   IN  /\ h_blocks[b].emitted
                       /\ h_blocks[b].end = s + k + 1
                       /\ QuestionOf(b).question_number = NumberOf(LineAt(s))
                       /\ Len(QuestionOf(b).options) = k
                       /\ \A m \in 1..k :
                              QuestionOf(b).options[m].label = LabelOf(LineAt(s + m))
                       /\ QuestionOf(b).correct_answer = None

\* the scenario: the Carbon question with its four options was parsed into
\* Question 1 with the options A, B, C, D
C8_Witness ==
    /\ pc = "done"
    /\ PlainBlockAt(0, 4)
    /\ LineAt(0) = CarbonLines[1]
    /\ questions[1].question_number = 1
    /\ [m \in 1..4 |-> questions[1].options[m].label] = << <<"A">>, <<"B">>, <<"C">>, <<"D">> >>

\* the lines of the input that classify as a question start
QuestionStartLines == {j \in 0..(Len(lines) - 1) : QuestionStart[LineAt(j)].matched}

\* the header, option and solution texts of block b as they were assembled
TextsOf(b) ==
    <<h_blocks[b].header>> \o h_blocks[b].raw
    \o (IF h_blocks[b].solution # None THEN <<h_blocks[b].solution>> ELSE <<>>)

\* C17: a question-start line reached while a block is open, in whatever
\* phase, closes that block and opens the next one: when the parser
\* returns, the blocks start at the question-start lines, one block for
\* each, every block ends where the next question-start line or the input's
\* end is, and no header, option or solution text holds such a line.
C17_QuestionStartClosesBlock ==
    pc = "done" =>
        LET starts == QuestionStartLines
            start_lines == {LineAt(j) : j \in starts}
        IN  /\ Len(h_blocks) = Cardinality(starts)
            /\ \A b \in 1..Len(h_blocks) :
                   /\ h_blocks[b].start \in starts
                   /\ \A j \in starts : ~(h_blocks[b].start < j /\ j < h_blocks[b].end)
                   /\ h_blocks[b].end =
                          IF b < Len(h_blocks) THEN h_blocks[b + 1].start ELSE Len(lines)
                   /\ LET texts == TextsOf(b)
                      IN  \A l \in start_lines : \A t \in 1..Len(texts) :
                              ~contains(texts[t], l)

\* the parser has returned; a question-start line had been reached in the
\* solution of a block that has an option, and it opened the last block
C17_Witness ==
    /\ pc = "done"
    /\ Len(h_blocks) >= 2
    /\ LET b == Len(h_blocks) - 1
       IN  /\ h_blocks[b].n_options >= 1
           /\ h_blocks[b].solution # None
           /\ h_blocks[b + 1].start = h_blocks[b].end

EndsWith(s, w) == Len(s) >= Len(w) /\ SubSeq(s, Len(s) - Len(w) + 1, Len(s)) = w

\* the text of block b that was written last: its solution, else its last
\* option, else its header
LastTextOf(b) ==
    IF h_blocks[b].solution # None THEN h_blocks[b].solution
    ELSE IF h_blocks[b].raw # <<>> THEN h_blocks[b].raw[Len(h_blocks[b].raw)]
    ELSE h_blocks[b].header

\* what a line can add to a text: the line, or what follows its question
\* number, its option letter or its solution word
ContentsOf(l) ==
    {l}
    \cup (IF QuestionStart[l].matched THEN {QuestionStart[l].q_text} ELSE {})
    \cup (IF OptionStart[l].matched THEN {OptionStart[l].text} ELSE {})
    \cup (IF truthy(SolutionStart[l]) THEN {SolutionStart[l]} ELSE {})

\* C18: when the input ends while a block is open, in whatever phase, the
\* pending option and solution text are flushed and the block is closed and
\* put to the promotion rule before the parser returns: the last block
\* starts at the last question-start line and ends at the input's end, it
\* has an option for each option-start line before its solution, the last
\* line of the input that is not blank ends its last text, and it is
\* emitted, as the last Question, when its header is not empty and it has
\* two options or more.
C18_LastBlockFlushedAndClosed ==
    (pc = "done" /\ QuestionStartLines # {}) =>
        LET first == CHOOSE j \in QuestionStartLines : \A k \in QuestionStartLines : k <= j
            last == CHOOSE j \in first..(Len(lines) - 1) :
                        LineAt(j) # <<>> /\ \A k \in (j + 1)..(Len(lines) - 1) : LineAt(k) = <<>>
            b == Len(h_blocks)
        IN  /\ h_blocks # <<>>
            /\ h_blocks[b].start = first
            /\ h_blocks[b].end = Len(lines)
            /\ h_blocks[b].n_options =
                   Cardinality({o \in OptionLinesOf(b) : \A j \in SolutionLinesOf(b) : o < j})
            /\ Len(h_blocks[b].raw) = h_blocks[b].n_options
            /\ \E c \in ContentsOf(LineAt(last)) : EndsWith(LastTextOf(b), c)
            /\ h_blocks[b].emitted <=> (h_blocks[b].header # <<>> /\ h_blocks[b].n_options >= 2)
            /\ h_blocks[b].emitted =>
                   /\ questions # <<>>
                   /\ questions[Len(questions)].question_number = QuestionStart[LineAt(first)].q_num
                   /\ Len(questions[Len(questions)].options) = h_blocks[b].n_options

\* the input ended in the continuation of the second option of a block,
\* and the Question of the block was returned with that option
C18_Witness ==
    /\ pc = "done"
    /\ h_blocks # <<>>
    /\ h_blocks[Len(h_blocks)].emitted
    /\ h_blocks[Len(h_blocks)].n_options = 2
    /\ h_blocks[Len(h_blocks)].solution = None
    /\ ~OptionStart[LineAt(Len(lines) - 1)].matched
    /\ EndsWith(h_blocks[Len(h_blocks)].raw[2], LineAt(Len(lines) - 1))
    /\ Len(questions[Len(questions)].options) = 2

\* C19: when two or more options of a block end with the marker
\* "(Correct)", the marker is removed from each of them and the Question's
\* correct_answer is the label of the last of them in input order.
C19_LastOfSeveralMarkedOptions ==
    \A b \in 1..Len(h_blocks) :
        (h_blocks[b].emitted /\ Cardinality(MarkedOptions(b)) >= 2) =>
            LET q == QuestionOf(b)
            IN  /\ \A o \in MarkedOptions(b) :
                       q.options[o].text = WithoutMarker(h_blocks[b].raw[o])
                /\ \E o \in MarkedOptions(b) :
                       /\ \A m \in MarkedOptions(b) : m <= o
                       /\ q.correct_answer = q.options[o].label

\* a Question was returned whose first and second options were both marked:
\* neither text ends with the marker and the answer is the second label,
\* not the first
C19_Witness ==
    \E b \in 1..Len(h_blocks) :
        /\ h_blocks[b].emitted
        /\ MarkedOptions(b) = {1, 2}
        /\ ~EndsWithMarker(QuestionOf(b).options[1].text)
        /\ ~EndsWithMarker(QuestionOf(b).options[2].text)
        /\ QuestionOf(b).correct_answer = QuestionOf(b).options[2].label
        /\ QuestionOf(b).correct_answer # QuestionOf(b).options[1].label

\* the option texts of a Question that are not empty, in option order
NonEmptyTexts(q) ==
    SelectSeq([o \in 1..Len(q.options) |-> q.options[o].text], LAMBDA t : t # <<>>)

\* the parts of the embedding text of the Question of block b, the answer
\* being the text of the option that carried the marker
EmbeddingParts(b) ==
    LET q == QuestionOf(b)
        marked == MarkedOptions(b)
        correct == CHOOSE o \in marked : \A m \in marked : m <= o
    IN  << <<"Q", "u", "e", "s", "t", "i", "o", "n", ":", " ">> \o q.question_text >>
        \o (IF NonEmptyTexts(q) # <<>>
            THEN << <<"O", "p", "t", "i", "o", "n", "s", ":", " ">>
                    \o join(<<" ", "|", " ">>, NonEmptyTexts(q)) >>
            ELSE <<>>)
        \o << <<"S", "u", "b", "j", "e", "c", "t", ":", " ">> \o q.subject >>
        \o (IF q.correct_answer # None
            THEN << <<"A", "n", "s", "w", "e", "r", ":", " ">> \o q.options[correct].text >>
            ELSE <<>>)

\* C13: the embedding text of a Question is, in this order, the question
\* text, the option texts that are not empty joined by " | ", the subject
\* and, only when a correct answer is known, the text of the correct
\* option; nothing else and nothing out of this order.
C13_EmbeddingPartsInOrder ==
    \A b \in 1..Len(h_blocks) :
        h_blocks[b].emitted =>
            /\ QuestionOf(b).correct_answer # None <=> MarkedOptions(b) # {}
            /\ QuestionOf(b).embedding_text = join(<<" ">>, EmbeddingParts(b))

\* the line is not blank and the classifier gives it no kind: it starts no
\* question, no option and no solution
Unclassified(l) ==
    /\ l # <<>>
    /\ ~QuestionStart[l].matched
    /\ ~OptionStart[l].matched
    /\ ~truthy(SolutionStart[l])

\* the indices lo..hi that pass the test, in increasing order
IndicesIn(lo, hi, Test(_)) ==
    IF hi < lo THEN <<>>
    ELSE SelectSeq([k \in 1..(hi - lo + 1) |-> lo + k - 1], Test)

\* the least of the indices of lo..(hi - 1) that pass the test, hi if none does
FirstIn(lo, hi, Test(_)) ==
    LET found == IndicesIn(lo, hi - 1, Test) IN IF found = <<>> THEN hi ELSE found[1]

\* the unclassified lines of lo..hi, in input order
UnclassifiedIn(lo, hi) ==
    LET at == IndicesIn(lo, hi, LAMBDA j : Unclassified(LineAt(j)))
    IN  [k \in 1..Len(at) |-> LineAt(at[k])]

\* where block b ends: the next question-start line, or the end of input
BlockEnd(b) ==
    FirstIn(h_blocks[b].start + 1, Len(lines), LAMBDA j : QuestionStart[LineAt(j)].matched)

\* where the header of block b stops: its first option-start line, or the
\* question-start line or the end of input that ends the block
HeaderStop(b) ==
    FirstIn(h_blocks[b].start + 1, BlockEnd(b), LAMBDA j : OptionStart[LineAt(j)].matched)

\* where the options of block b stop: its first solution-start line after
\* the header, or the end of the block
OptionsStop(b) ==
    FirstIn(HeaderStop(b), BlockEnd(b), LAMBDA j : truthy(SolutionStart[LineAt(j)]))

\* the option-start lines of block b between its header and its solution
OptionStartsOf(b) ==
    IndicesIn(HeaderStop(b), OptionsStop(b) - 1, LAMBDA j : OptionStart[LineAt(j)].matched)

\* a remainder, when it is not empty, then the lines, joined by single spaces
Stitched(remainder, continuation) ==
    join(<<" ">>, (IF remainder # <<>> THEN <<remainder>> ELSE <<>>) \o continuation)

\* the header the stitching rule gives block b
StitchedHeader(b) ==
    Stitched(QuestionStart[LineAt(h_blocks[b].start)].q_text,
             UnclassifiedIn(h_blocks[b].start + 1, HeaderStop(b) - 1))

\* the option texts the stitching rule gives block b
StitchedOptions(b) ==
    LET starts == OptionStartsOf(b)
    IN  [o \in 1..Len(starts) |->
            Stitched(OptionStart[LineAt(starts[o])].text,
                     UnclassifiedIn(starts[o] + 1,
                                    (IF o < Len(starts) THEN starts[o + 1] ELSE OptionsStop(b))
                                    - 1))]

\* C21: the header of a block is the remainder of its question-start line
\* followed by the unclassified lines that come after it, up to the first
\* option-start or question-start line, joined by single spaces; the text
\* of each option is the remainder of its option-start line followed by the
\* unclassified lines that come after it, up to the next option-start,
\* question-start or solution-start line, joined by single spaces.
C21_FieldsStitchedInOrder ==
    \A b \in 1..Len(h_blocks) :
        /\ h_blocks[b].header = StitchedHeader(b)
        /\ h_blocks[b].raw = StitchedOptions(b)

\* the lines of lo..hi that are not blank, in input order
NonBlankIn(lo, hi) ==
    LET at == IndicesIn(lo, hi, LAMBDA j : LineAt(j) # <<>>)
    IN  [k \in 1..Len(at) |-> LineAt(at[k])]

\* block b entered the solution loop: a solution-start line came after its
\* header, before the block ended
EnteredSolution(b) == OptionsStop(b) < BlockEnd(b)

\* C22: once a block has entered the solution loop, every line after the
\* solution-start line that is not blank, up to the next question-start
\* line or the end of input, is appended in order to the solution, joined
\* by single spaces, option-start and solution-start lines included, and
\* the block gets no option after its solution has started.
C22_SolutionTakesEveryLine ==
    \A b \in 1..Len(h_blocks) :
        EnteredSolution(b) =>
            /\ h_blocks[b].solution =
                   Stitched(SolutionStart[LineAt(OptionsStop(b))],
                            NonBlankIn(OptionsStop(b) + 1, BlockEnd(b) - 1))
            /\ h_blocks[b].n_options = Len(OptionStartsOf(b))
            /\ h_blocks[b].emitted =>
                   /\ QuestionOf(b).solution = h_blocks[b].solution
                   /\ Len(QuestionOf(b).options) = Len(OptionStartsOf(b))

\* a Question was returned with two options and the solution
\* "B B) y (Correct) Answer: B": an option-start line that carries the
\* marker and a solution-start line came after "Answer: B", both went into
\* the solution, and the Question has no third option and no answer
C22_Witness ==
    \E b \in 1..Len(h_blocks) :
        /\ h_blocks[b].emitted
        /\ EnteredSolution(b)
        /\ OptionsStop(b) + 2 < BlockEnd(b)
        /\ h_blocks[b].n_options = 2
        /\ QuestionOf(b).correct_answer = None
        /\ QuestionOf(b).solution =
               <<"B", " ">> \o LineAt(OptionsStop(b) + 1) \o <<" ">> \o LineAt(OptionsStop(b) + 2)
        /\ OptionStart[LineAt(OptionsStop(b) + 1)].matched
        /\ truthy(SolutionStart[LineAt(OptionsStop(b) + 2)])

\* the lists of line texts a step has changed: the header's, the open
\* option's, the solution's
GrownFields ==
    {f \in {"header", "option", "solution"} :
        \/ f = "header" /\ question_lines' # question_lines
        \/ f = "option" /\ option_lines' # option_lines
        \/ f = "solution" /\ solution_lines' # solution_lines}

\* the list was started with, or got at its end, what the line holds
TakesLine(before, after, l) ==
    \E c \in ContentsOf(l) : after = <<c>> \/ after = Append(before, c)

\* C25: the parser never goes back: no step lowers the line index; a step
\* that puts text into a field puts the text of the current line into one
\* field of the open block and moves past that line, so that no line gives
\* text to two fields or to two blocks; the blocks do not overlap, and a
\* block that is closed before the end of input is closed at a
\* question-start line, which it has not consumed and which is still the
\* current line for the scan that opens the next block.
C25_NoBacktracking ==
    [][/\ i' >= i
       /\ Cardinality(GrownFields) <= 1
       /\ GrownFields # {} =>
              /\ i' = i + 1
              /\ i < Len(lines)
              /\ "header" \in GrownFields =>
                     TakesLine(question_lines, question_lines', LineAt(i))
              /\ "option" \in GrownFields =>
                     TakesLine(option_lines, option_lines', LineAt(i))
              /\ "solution" \in GrownFields =>
                     TakesLine(solution_lines, solution_lines', LineAt(i))
       /\ pc = "close" =>
              /\ i' = i
              /\ i < Len(lines) => QuestionStart[LineAt(i)].matched
              /\ h_start < i
              /\ h_blocks # <<>> => h_blocks[Len(h_blocks)].end <= h_start
      ]_vars

\* the parser has returned two Questions; the block of the second started
\* at the question-start line at which the block of the first was closed,
\* and the options of both were read from the lines between
C25_Witness ==
    /\ pc = "done"
    /\ i = Len(lines)
    /\ Len(questions) = 2
    /\ Len(h_blocks) = 2
    /\ h_blocks[2].start = h_blocks[1].end
    /\ h_blocks[1].n_options + h_blocks[2].n_options = Len(lines) - 2

\* C26: in every Question the call returns, correct_answer is None or the
\* label of an option of that Question; it is None when no option of the
\* Question's block carried the marker, whatever the blocks before it had.
C26_AnswerIsLabelOfOwnOption ==
    /\ \A k \in 1..Len(questions) :
           \/ questions[k].correct_answer = None
           \/ \E o \in 1..Len(questions[k].options) :
                  questions[k].options[o].label = questions[k].correct_answer
    /\ \A b \in 1..Len(h_blocks) :
           (h_blocks[b].emitted /\ MarkedOptions(b) = {}) =>
               QuestionOf(b).correct_answer = None

\* two Questions were returned; the first has the answer C, the label of
\* its marked option, and the second, which has no marked option and no
\* option C, has none
C26_Witness ==
    /\ Len(questions) = 2
    /\ Len(h_blocks) = 2
    /\ questions[1].correct_answer = <<"C">>
    /\ MarkedOptions(1) # {}
    /\ MarkedOptions(2) = {}
    /\ questions[2].correct_answer = None
    /\ \A o \in 1..Len(questions[2].options) : questions[2].options[o].label # <<"C">>

\* the question-start lines of the input, in input order
QuestionStartSeq ==
    IndicesIn(0, Len(lines) - 1, LAMBDA j : QuestionStart[LineAt(j)].matched)

\* C27: every question-start line opens one block and no other line opens
\* one, so that when the parser returns, the Questions returned and the
\* blocks dropped are together as many as the question-start lines; the
\* Questions are in the list in the order of their question-start lines,
\* each with the number of its line and the header of its block.
C27_OneBlockPerQuestionStart ==
    /\ Len(questions) = Cardinality({b \in 1..Len(h_blocks) : h_blocks[b].emitted})
    /\ pc = "done" =>
           LET starts == QuestionStartSeq
               dropped == {b \in 1..Len(h_blocks) : ~h_blocks[b].emitted}
           IN  /\ Len(questions) + Cardinality(dropped) = Len(starts)
               /\ Len(h_blocks) = Len(starts)
               /\ \A b \in 1..Len(h_blocks) :
                      /\ h_blocks[b].start = starts[b]
                      /\ h_blocks[b].emitted =>
                             /\ QuestionOf(b).question_number =
                                    QuestionStart[LineAt(starts[b])].q_num
                             /\ QuestionOf(b).question_text = clean_text(h_blocks[b].header)

\* the parser has returned; of three question-start lines the second had
\* no option: its block was dropped, and the Questions of the first and of
\* the third were returned in that order
C27_Witness ==
    /\ pc = "done"
    /\ Len(QuestionStartSeq) = 3
    /\ Len(questions) = 2
    /\ ~h_blocks[2].emitted
    /\ questions[1].question_number = QuestionStart[LineAt(QuestionStartSeq[1])].q_num
    /\ questions[2].question_number = QuestionStart[LineAt(QuestionStartSeq[3])].q_num
    /\ questions[1].question_number # questions[2].question_number

\* C30: has_multiline is False in every Question the call returns, also
\* when its header or one of its options was put together from several
\* lines: the input is split at the line breaks and the lines are joined
\* with spaces, so that no text of the Question holds a line break.
C30_HasMultilineFalse ==
    \A k \in 1..Len(questions) :
        /\ questions[k].has_multiline = FALSE
        /\ ~contains(questions[k].question_text, <<"\n">>)
        /\ \A o \in 1..Len(questions[k].options) :
               ~contains(questions[k].options[o].text, <<"\n">>)

\* a Question was returned whose header and whose first option were each
\* put together from two lines of the input, and its has_multiline is False
C30_Witness ==
    \E b \in 1..Len(h_blocks) :
        /\ h_blocks[b].emitted
        /\ Len(QuestionOf(b).question_text) >
               Len(QuestionStart[LineAt(h_blocks[b].start)].q_text)
        /\ Len(QuestionOf(b).options[1].text) >
               Len(OptionStart[LineAt(OptionStartsOf(b)[1])].text)
        /\ QuestionOf(b).has_multiline = FALSE

(***************************************************************************)
(* main.parse_questions: one parser, every file parsed in turn             *)
(***************************************************************************)
\* the most files the directory holds
MaxFiles == 3

\* the texts of the files: a question with a marked option, a question with
\* one option only, a question with a marked option and a solution, and a
\* question whose text is an exam tag followed by a question with one option
\* only
ParisDoc == join(<<"\n">>, ParisLines)

OneOptionDoc ==
    join(<<"\n">>, << <<"1", ".", " ", "a", "t", "o", "m">>, <<"a", ".", " ", "x">> >>)

SolutionDoc ==
    join(<<"\n">>, << <<"1", ".", " ", "a", "t", "o", "m">>, <<"a", ".", " ", "x">>,
                      <<"B", ")", " ", "y", " ", "(", "C", "o", "r", "r", "e", "c", "t", ")">>,
                      <<"A", "n", "s", "w", "e", "r", ":", " ", "B">> >>)

TagDoc ==
    join(<<"\n">>, << <<"Q", ".", "2", " ", "N", "E", "T", " ", "1", "2", " ", "2", "0", "2", "0">>,
                      <<"a", ".", " ", "x">>, <<"c", ".", "z">>,
                      <<"1", ".", " ", "a", "t", "o", "m">>, <<"a", ".", " ", "x">> >>)

\* the files the directory may hold
MainFiles ==
    {[name |-> PaperTxt, text |-> d] : d \in {ParisDoc, OneOptionDoc, SolutionDoc, TagDoc}}
    \cup {[name |-> Net2019Txt, text |-> ParisDoc]}

\* lines 73-93: the parser is made once, the files are listed, the counters
\* start at zero
InitMain ==
    /\ text_files \in UNION {[1..n -> MainFiles] : n \in 1..MaxFiles}
    /\ file_index = 0
    /\ total_questions = 0
    /\ successful = 0
    /\ failed = 0
    /\ h_returned = <<>>
    /\ pc = "main"
    /\ text = <<>>
    /\ source_file = <<>>
    /\ lines = <<>>
    /\ questions = <<>>
    /\ i = 0
    /\ FreshLocals
    /\ h_blocks = <<>>
    /\ NoClassify
    /\ NoCall

\* lines 95-104: the next file is read and the parser is called on it
ParseFile ==
    /\ pc = "main"
    /\ file_index < Len(text_files)
    /\ text' = text_files[file_index + 1].text
    /\ source_file' = text_files[file_index + 1].name
    /\ enter_parse(text')
    /\ q_num' = 0
    /\ question_lines' = <<>>
    /\ full_question' = <<>>
    /\ options' = <<>>
    /\ correct_answer' = None
    /\ option_format' = "none"
    /\ opt_label' = <<>>
    /\ option_lines' = <<>>
    /\ solution_lines' = <<>>
    /\ solution' = None
    /\ h_start' = 0
    /\ h_raw' = <<>>
    /\ h_blocks' = <<>>
    /\ pc' = "scan"
    /\ UNCHANGED <<main_vars, classify_vars, fn_vars>>

\* lines 100-102 and 125-127: the file cannot be read
ReadError ==
    /\ pc = "main"
    /\ file_index < Len(text_files)
    /\ failed' = failed + 1
    /\ file_index' = file_index + 1
    /\ UNCHANGED <<parse_vars, text_files, total_questions, successful, h_returned,
                   classify_vars, fn_vars>>

\* lines 106-127: the call has returned; the file is counted
FileDone ==
    /\ pc = "done"
    /\ file_index < Len(text_files)
    /\ \E saved \in BOOLEAN :
          IF questions # <<>> /\ saved
          THEN /\ total_questions' = total_questions + Len(questions)
               /\ successful' = successful + 1
               /\ UNCHANGED failed
          ELSE /\ failed' = failed + 1
               /\ UNCHANGED <<total_questions, successful>>
    /\ file_index' = file_index + 1
    /\ h_returned' = Append(h_returned, [text |-> text, source_file |-> source_file,
                                         questions |-> questions])
    /\ pc' = "main"
    /\ UNCHANGED <<text, source_file, lines, questions, i, block_vars, h_blocks, text_files,
                   classify_vars, fn_vars>>

NextMain == Next \/ ParseFile \/ ReadError \/ FileDone

SpecMain == InitMain /\ [][NextMain]_vars

(***************************************************************************)
(* Properties of the parser used by main.parse_questions                   *)
(***************************************************************************)
\* C4: a call given the text and source_file of an earlier call on the same
\* parser, whatever was parsed in between, returns the same list of
\* Questions
C4_SameInputSameQuestions ==
    pc = "done" =>
        \A k \in 1..Len(h_returned) :
            (h_returned[k].text = text /\ h_returned[k].source_file = source_file)
                => h_returned[k].questions = questions

\* the third call has returned; it was given what the first was given, the
\* second was given another text, and Questions were returned
C4_Witness ==
    /\ pc = "done"
    /\ Len(h_returned) = 2
    /\ h_returned[1].text = text
    /\ h_returned[1].source_file = source_file
    /\ h_returned[2].text # text
    /\ questions # <<>>

\* the blocks of this call that were closed with exactly one option
OneOptionBlocks == {k \in 1..Len(h_blocks) : h_blocks[k].n_options = 1}

MaxWords == 2

MaxOptions == 1

\* the words of the texts, with the subjects whose keywords they hold
WordSet == {
    <<"a", "t", "o", "m">>,                  \* physics and chemistry
    <<"C", "e", "l", "l">>,                  \* biology, once lowered
    <<"n", "o", "u", "n">>,                  \* english
    <<"b", "o", "n", "d">>,                  \* chemistry
    <<"D", "N", "A">>,                       \* no subject: the keyword is not lowercase
    <<"l", "i", "m", "i", "t">>,             \* mathematics
    <<"m", "o", "t", "i", "o", "n">>         \* physics, and chemistry by its ion
}

Texts == {join(<<" ">>, ws) : ws \in UNION {[1..n -> WordSet] : n \in 0..MaxWords}}

\* the words of the option texts
OptionWordSet == {
    <<"a", "t", "o", "m">>,
    <<"n", "o", "u", "n">>,
    <<"D", "N", "A">>
}

OptionLists ==
    UNION {[1..n -> {[label |-> <<"A">>, text |-> w] : w \in OptionWordSet}] :
              n \in 0..MaxOptions}

InitClassify ==
    /\ cs_question_text \in Texts
    /\ cs_options \in OptionLists
    /\ cs_subject = None
    /\ pc = "classify"
    /\ text = <<>>
    /\ source_file = <<>>
    /\ lines = <<>>
    /\ questions = <<>>
    /\ i = 0
    /\ FreshLocals
    /\ h_blocks = <<>>
    /\ NoMain
    /\ NoCall

\* lines 444-467: the call returns
Classify ==
    /\ pc = "classify"
    /\ cs_subject' = classify_subject(cs_question_text, cs_options)
    /\ pc' = "classified"
    /\ UNCHANGED <<text, source_file, lines, questions, i, block_vars, h_blocks, main_vars,
                   cs_question_text, cs_options, fn_vars>>

NextClassify == Classify

SpecClassify == InitClassify /\ [][NextClassify]_vars

(***************************************************************************)
(* Properties of classify_subject                                          *)
(***************************************************************************)
\* the text that is scanned: the question text and the text of each option,
\* in lowercase, with a space before each option
ScannedText == classify_text(lower(cs_question_text), cs_options, 1)

\* for each subject, in the order of subject_keywords, the number of its
\* keywords that are substrings of the scanned text
MatchCounts ==
    LET scanned == ScannedText
    IN  [k \in 1..Len(subject_keywords) |->
            Cardinality({w \in 1..Len(subject_keywords[k].keywords) :
                            contains(scanned, subject_keywords[k].keywords[w])})]

\* the greatest of the counts
Greatest(counts) ==
    CHOOSE c \in {counts[k] : k \in DOMAIN counts} : \A k \in DOMAIN counts : counts[k] <= c

DeclarationOrder ==
    << <<"p", "h", "y", "s", "i", "c", "s">>,
       <<"c", "h", "e", "m", "i", "s", "t", "r", "y">>,
       <<"b", "i", "o", "l", "o", "g", "y">>,
       <<"m", "a", "t", "h", "e", "m", "a", "t", "i", "c", "s">>,
       <<"e", "n", "g", "l", "i", "s", "h">> >>

\* C9: when some keyword matches, the subject returned is the first in the
\* order physics, chemistry, biology, mathematics, english among the
\* subjects with the greatest count
C9_FirstSubjectOfMaximalCount ==
    /\ [k \in 1..Len(subject_keywords) |-> subject_keywords[k].subject] = DeclarationOrder
    /\ pc = "classified" =>
           LET counts == MatchCounts
               greatest == Greatest(counts)
           IN  greatest > 0 =>
                   \E k \in 1..Len(DeclarationOrder) :
                       /\ cs_subject = DeclarationOrder[k]
                       /\ counts[k] = greatest
                       /\ \A j \in 1..(k - 1) : counts[j] < greatest

\* two subjects share the greatest count and the earlier one was returned
C9_Witness ==
    /\ pc = "classified"
    /\ LET counts == MatchCounts
           greatest == Greatest(counts)
       IN  /\ greatest > 0
           /\ \E j, k \in 1..Len(DeclarationOrder) :
                  /\ j < k
                  /\ counts[j] = greatest
                  /\ counts[k] = greatest
                  /\ cs_subject = DeclarationOrder[j]

\* C10: "general" is returned exactly when no keyword of any subject is a
\* substring of the scanned text
C10_GeneralIffNoKeyword ==
    pc = "classified" =>
        (cs_subject = <<"g", "e", "n", "e", "r", "a", "l">>
            <=> LET scanned == ScannedText
                IN  \A k \in 1..Len(subject_keywords) :
                        \A w \in 1..Len(subject_keywords[k].keywords) :
                            ~contains(scanned, subject_keywords[k].keywords[w]))

\* "general" was returned for a text that is not empty
C10_Witness ==
    /\ pc = "classified"
    /\ cs_subject = <<"g", "e", "n", "e", "r", "a", "l">>
    /\ cs_question_text # <<>>
    /\ cs_options # <<>>

\* every keyword of the subject vocabulary, and of the topic vocabulary
DeclaredKeywords ==
    UNION {{subject_keywords[k].keywords[w] : w \in 1..Len(subject_keywords[k].keywords)} :
              k \in 1..Len(subject_keywords)}
    \cup UNION {UNION {{TOPICS[k].topics[t].keywords[w] :
                           w \in 1..Len(TOPICS[k].topics[t].keywords)} :
                          t \in 1..Len(TOPICS[k].topics)} :
                   k \in 1..Len(TOPICS)}

\* C16: every keyword of the subject vocabulary and of the topic vocabulary
\* is a lowercase string, so that a keyword that occurs in the text, in
\* whatever letter case, is found in the lowercased text and counts: the
\* subject is then not "general".
C16_KeywordsLowercase ==
    /\ \A keyword \in DeclaredKeywords : lower(keyword) = keyword
    /\ pc = "classified" =>
           LET scanned == ScannedText
           IN  (\E k \in 1..Len(subject_keywords) :
                   \E w \in 1..Len(subject_keywords[k].keywords) :
                       contains(scanned, lower(subject_keywords[k].keywords[w])))
               => cs_subject # <<"g", "e", "n", "e", "r", "a", "l">>

(***************************************************************************)
(* calculate_difficulty_score called on its own                            *)
(***************************************************************************)
\* the most fragments of a question text, and the most options
MaxFragments == 2

MaxScoredOptions == 2

\* what the question texts are made of
FragmentSet == {
    <<"p", "r", "o", "v", "e">>,
    <<"b", "a", "s", "i", "c">>,
    <<"a", "n", "d", " ", "f", "i", "n", "d", " ", "2", "+", "3">>,
    <<"c", "a", "l", "c", "u", "l", "a", "t", "e">>,
    <<"=", " ", "5">>,
    <<"a", "^", "2">>
}

\* n letters that are in no keyword
Pad(n) == [k \in 1..n |-> "z"]

\* question texts shorter than 50 characters, of 50 to 200, and longer than
\* 200 and than 300
ScoredTexts ==
    {join(<<" ">>, ws) \o Pad(n) :
        ws \in UNION {[1..m -> FragmentSet] : m \in 0..MaxFragments},
        n \in {0, 50, 200, 300}}

\* options whose texts average to 50 characters and less, and to more
ScoredOptionLists ==
    UNION {[1..n -> {[label |-> <<"A">>, text |-> Pad(m)] : m \in {1, 99}}] :
              n \in 0..MaxScoredOptions}

\* the parser is not running
NoParse ==
    /\ text = <<>>
    /\ source_file = <<>>
    /\ lines = <<>>
    /\ questions = <<>>
    /\ i = 0
    /\ FreshLocals
    /\ h_blocks = <<>>

InitDifficulty ==
    /\ fn_args \in [question_text : ScoredTexts, options : ScoredOptionLists]
    /\ fn_result = None
    /\ fn_prev = <<>>
    /\ pc = "call"
    /\ NoParse
    /\ NoMain
    /\ NoClassify

\* lines 103-154: the call returns
CalculateDifficultyScore ==
    /\ pc = "call"
    /\ fn_result' = calculate_difficulty_score(fn_args.question_text, fn_args.options)
    /\ pc' = "return"
    /\ UNCHANGED <<text, source_file, lines, questions, i, block_vars, h_blocks, main_vars,
                   classify_vars, fn_args, fn_prev>>

NextDifficulty == CalculateDifficultyScore

SpecDifficulty == InitDifficulty /\ [][NextDifficulty]_vars

\* C11: calculate_difficulty_score returns a value of the closed interval
\* [1.0, 10.0] that has one decimal place, whatever the question text and
\* the options.
C11_ScoreInRangeOneDecimal ==
    pc = "return" =>
        /\ fn_result >= 1000
        /\ fn_result <= 10000
        /\ fn_result % 100 = 0

\* a long question that asks to prove and to find, with a calculation and
\* long options, is scored 9.0; a short basic one 4.0
C11_Witness ==
    /\ pc = "return"
    /\ Len(fn_args.question_text) > 200
    /\ contains(fn_args.question_text, <<"p", "r", "o", "v", "e">>)
    /\ fn_args.options # <<>>
    /\ fn_result = 9000

\* the adjustment of each rule of lines 116-150 for the arguments of the
\* call, each taken on its own condition alone
LengthAdjustment ==
    LET q_len == Len(fn_args.question_text)
    IN  IF q_len > 200 THEN 1000 ELSE IF q_len > 300 THEN 1500
        ELSE IF q_len < 50 THEN 0 - 500 ELSE 0

FormulaAdjustment ==
    IF re_search(difficulty_formula_pattern, fn_args.question_text) # <<>> THEN 500 ELSE 0

CalculationAdjustment ==
    IF re_search(difficulty_calculation_pattern, fn_args.question_text) # <<>> THEN 500 ELSE 0

OptionAdjustment ==
    IF /\ fn_args.options # <<>>
       /\ sum_text_len(fn_args.options, 1) > 50 * Len(fn_args.options)
    THEN 500 ELSE 0

ComplexityAdjustment ==
    IF any_in(complexity_words, lower(fn_args.question_text)) THEN 1000 ELSE 0

SimplicityAdjustment ==
    IF any_in(simplicity_words, lower(fn_args.question_text)) THEN 0 - 500 ELSE 0

MultiStepAdjustment ==
    LET text_lower == lower(fn_args.question_text)
    IN  IF /\ contains(text_lower, <<"a", "n", "d">>)
           /\ \/ contains(text_lower, <<"c", "a", "l", "c", "u", "l", "a", "t", "e">>)
              \/ contains(text_lower, <<"f", "i", "n", "d">>)
        THEN 500 ELSE 0

\* C24: the score before it is clamped is the baseline 5.0 plus the
\* adjustment of every rule whose own condition holds, each rule being
\* evaluated whatever the others gave: 0.5 is subtracted whenever the text
\* has a simplicity keyword and 1.0 is added whenever it has a complexity
\* keyword.
C24_RulesAddIndependently ==
    pc = "return" =>
        fn_result =
            float_max(1000, float_min(10000, py_round1(
                5000 + LengthAdjustment + FormulaAdjustment + CalculationAdjustment
                + OptionAdjustment + ComplexityAdjustment + SimplicityAdjustment
                + MultiStepAdjustment)))

\* C28: whatever the question text and the options, the score is between
\* 4.0 and 9.0: the length rule adds 1.0 at most, also to a text of more
\* than 300 characters (one that no other rule applies to is scored 6.0);
\* the score is then inside [1.0, 10.0], where the clamp changes nothing,
\* and the band of the score is never "easy".
C28_ScoreBetweenFourAndNine ==
    pc = "return" =>
        /\ fn_result >= 4000
        /\ fn_result <= 9000
        /\ (/\ Len(fn_args.question_text) > 300
            /\ fn_args.question_text = Pad(Len(fn_args.question_text))
            /\ fn_args.options = <<>>) => fn_result = 5000 + 1000
        /\ get_difficulty_level(fn_result) # <<"e", "a", "s", "y">>

\* a text of more than 300 characters to which no other rule applies was
\* scored 6.0, the baseline and 1.0
C28_Witness ==
    /\ pc = "return"
    /\ Len(fn_args.question_text) > 300
    /\ FormulaAdjustment + CalculationAdjustment + OptionAdjustment + ComplexityAdjustment
       + SimplicityAdjustment + MultiStepAdjustment = 0
    /\ fn_result = 6000

(***************************************************************************)
(* get_difficulty_level called on its own, twice                           *)
(***************************************************************************)
\* the scores from 1.0 to 10.0, every twentieth
Scores == {1000 + 50 * k : k \in 0..180}

InitLevel ==
    /\ fn_args \in Scores
    /\ fn_result = None
    /\ fn_prev = <<>>
    /\ pc = "call"
    /\ NoParse
    /\ NoMain
    /\ NoClassify

\* lines 156-173: the call returns
GetDifficultyLevel ==
    /\ pc = "call"
    /\ fn_result' = get_difficulty_level(fn_args)
    /\ pc' = "return"
    /\ UNCHANGED <<text, source_file, lines, questions, i, block_vars, h_blocks, main_vars,
                   classify_vars, fn_args, fn_prev>>

\* the function is called a second time, with any score
NextLevelCall ==
    /\ pc = "return"
    /\ fn_prev = <<>>
    /\ fn_prev' = <<[score |-> fn_args, level |-> fn_result]>>
    /\ fn_args' \in Scores
    /\ pc' = "call"
    /\ UNCHANGED <<text, source_file, lines, questions, i, block_vars, h_blocks, main_vars,
                   classify_vars, fn_result>>

NextLevel == GetDifficultyLevel \/ NextLevelCall

SpecLevel == InitLevel /\ [][NextLevel]_vars

\* the bands from the lowest to the highest
Bands == <<<<"e", "a", "s", "y">>, <<"m", "e", "d", "i", "u", "m">>, <<"h", "a", "r", "d">>, <<"e", "x", "p", "e", "r", "t">>>>

BandRank(level) == CHOOSE r \in 1..Len(Bands) : Bands[r] = level

\* the bands whose interval holds the score
BandsOf(s) ==
    {Bands[r] : r \in {r \in 1..Len(Bands) :
        \/ r = 1 /\ s < 3500
        \/ r = 2 /\ 3500 <= s /\ s < 6500
        \/ r = 3 /\ 6500 <= s /\ s < 8500
        \/ r = 4 /\ 8500 <= s}}

\* C12: get_difficulty_level gives every score of [1.0, 10.0] the one band
\* whose interval holds it (easy below 3.5, medium from 3.5 to below 6.5,
\* hard from 6.5 to below 8.5, expert from 8.5), and of two scores the
\* greater one never gets the lower band.
C12_OneBandMonotonic ==
    pc = "return" =>
        /\ BandsOf(fn_args) = {fn_result}
        /\ \A k \in 1..Len(fn_prev) :
              /\ fn_prev[k].score <= fn_args =>
                     BandRank(fn_prev[k].level) <= BandRank(fn_result)
              /\ fn_args <= fn_prev[k].score =>
                     BandRank(fn_result) <= BandRank(fn_prev[k].level)

\* 3.45 is easy and 3.5, asked next, is medium
C12_Witness ==
    /\ pc = "return"
    /\ fn_prev = <<[score |-> 3450, level |-> <<"e", "a", "s", "y">>]>>
    /\ fn_args = 3500
    /\ fn_result = <<"m", "e", "d", "i", "u", "m">>

(***************************************************************************)
(* enhance_question called on the dict of a parsed Question                *)
(***************************************************************************)
\* the words of the question texts, with what they match
EnhanceWordSet == {
    <<"a", "t", "o", "m">>,                   \* physics, topic modern_physics
    <<"f", "o", "r", "c", "e">>,                  \* physics, topic mechanics
    <<"g", "e", "n", "e">>,                   \* biology, topic genetics
    <<"n", "o", "u", "n">>,                  \* english, topic grammar
    <<"p", "r", "o", "v", "e">>,                  \* no subject; a complexity keyword
    <<"x", " ", "=", " ", "5">>                      \* no subject; a formula and a calculation
}

EnhanceTexts ==
    {join(<<" ">>, ws) : ws \in UNION {[1..n -> EnhanceWordSet] : n \in 1..MaxWords}}

EnhanceOptionLists == {
    <<[label |-> <<"A">>, text |-> <<"x">>], [label |-> <<"B">>, text |-> <<"y">>]>>,
    <<[label |-> <<"A">>, text |-> Pad(60)], [label |-> <<"B">>, text |-> <<>>]>>
}

\* what the parser read of one question of the file being enhanced
EnhanceInputs ==
    [question_text : EnhanceTexts, options : EnhanceOptionLists,
     correct_answer : {None, <<"A">>, <<"B">>}]

InitEnhance ==
    /\ fn_args \in EnhanceInputs
    /\ fn_result = None
    /\ fn_prev = <<>>
    /\ pc = "load"
    /\ NoParse
    /\ NoMain
    /\ NoClassify

\* lines 247-257: enhance_json_file takes the next dict of the file the parser
\* wrote, which is the dict of the Question create_question made.
LoadQuestion ==
    /\ pc = "load"
    /\ fn_args' = create_question(1, fn_args.question_text, fn_args.options,
                                  fn_args.correct_answer, None, PaperTxt)
    /\ pc' = "call"
    /\ UNCHANGED <<text, source_file, lines, questions, i, block_vars, h_blocks, main_vars,
                   classify_vars, fn_result, fn_prev>>

\* lines 175-232: the call returns.  The assignments are made to the dict
\* that was passed in, and that dict is what is returned.
EnhanceQuestion ==
    /\ pc = "call"
    /\ LET enhanced == enhance_question(fn_args)
       IN  fn_result' = [question |-> enhanced, returned |-> enhanced]
    /\ pc' = "return"
    /\ UNCHANGED <<text, source_file, lines, questions, i, block_vars, h_blocks, main_vars,
                   classify_vars, fn_args, fn_prev>>

\* lines 256-257 on a file that was enhanced before: the dict the call is
\* given is the one an earlier call returned
EnhanceQuestionAgain ==
    /\ pc = "return"
    /\ fn_prev = <<>>
    /\ fn_prev' = <<[question |-> fn_args, returned |-> fn_result.returned]>>
    /\ fn_args' = fn_result.returned
    /\ pc' = "call"
    /\ UNCHANGED <<text, source_file, lines, questions, i, block_vars, h_blocks, main_vars,
                   classify_vars, fn_result>>

NextEnhance == LoadQuestion \/ EnhanceQuestion \/ EnhanceQuestionAgain

SpecEnhance == InitEnhance /\ [][NextEnhance]_vars

\* C14: enhance_question makes a new record and leaves the one it was given
\* as it was: after the call the dict that was passed in has the difficulty,
\* the embedding text, the keys and the option entries it had before.
C14_InputUnchanged ==
    pc = "return" =>
        /\ fn_result.question.difficulty = fn_args.difficulty
        /\ fn_result.question.embedding_text = fn_args.embedding_text
        /\ DOMAIN fn_result.question = DOMAIN fn_args
        /\ \A o \in 1..Len(fn_args.options) :
               /\ DOMAIN fn_result.question.options[o] = DOMAIN fn_args.options[o]
               /\ fn_result.question.options[o].text = fn_args.options[o].text
               /\ fn_result.question.options[o].label = fn_args.options[o].label

\* the fields of a question dict the parser made
CoreFields == {"id", "question_number", "question_text", "subject", "correct_answer", "solution"}

\* the labels and the texts of the options of a question dict, in order
LabelsAndTexts(question) ==
    [o \in 1..Len(question.options) |->
        [label |-> question.options[o].label, text |-> question.options[o].text]]

\* C29: enhance_question applied to its own result gives an equal record,
\* with the same topic, tags, difficulty, difficulty_score, is_correct
\* flags and embedding_text; and no call changes the id, question_number,
\* question_text, subject, correct_answer or solution of the question, nor
\* the number, the order, the labels or the texts of its options.
C29_IdempotentCoreUntouched ==
    pc = "return" =>
        /\ \A f \in CoreFields : fn_result.returned[f] = fn_args[f]
        /\ LabelsAndTexts(fn_result.returned) = LabelsAndTexts(fn_args)
        /\ fn_prev # <<>> =>
               /\ fn_args = fn_prev[1].returned
               /\ fn_result.returned = fn_args

\* the second call has returned; the first had given the question the
\* topic mechanics, a tag and an option with is_correct true, none of which
\* the parsed question had
C29_Witness ==
    /\ pc = "return"
    /\ fn_prev # <<>>
    /\ fn_prev[1].question.topic = None
    /\ "tags" \notin DOMAIN fn_prev[1].question
    /\ fn_result.returned.topic = <<"m", "e", "c", "h", "a", "n", "i", "c", "s">>
    /\ fn_result.returned.tags # <<>>
    /\ \E o \in 1..Len(fn_result.returned.options) :
           fn_result.returned.options[o].is_correct = TRUE

(***************************************************************************)
(* generate_question_id called on its own, twice                           *)
(***************************************************************************)
Net2020Txt == <<"n", "e", "t", " ", "2", "0", "2", "0", ".", "t", "x", "t">>

Mdcat2019Txt == <<"M", "D", "C", "A", "T", "_", "2", "0", "1", "9", ".", "t", "x", "t">>

\* the exam types and years that extract_exam_info finds in the file names
IdExams == {extract_exam_info(f) : f \in {PaperTxt, Net2019Txt, Net2020Txt, Mdcat2019Txt}}

\* question numbers of one to four digits
IdNumbers == {0, 7, 12, 123, 1234}

IdArgs == [exam : IdExams, q_num : IdNumbers]

InitId ==
    /\ fn_args \in IdArgs
    /\ fn_result = None
    /\ fn_prev = <<>>
    /\ pc = "call"
    /\ NoParse
    /\ NoMain
    /\ NoClassify

\* lines 469-472: the call returns
GenerateQuestionId ==
    /\ pc = "call"
    /\ fn_result' = generate_question_id(fn_args.exam.exam_type, fn_args.exam.year,
                                         fn_args.q_num)
    /\ pc' = "return"
    /\ UNCHANGED <<text, source_file, lines, questions, i, block_vars, h_blocks, main_vars,
                   classify_vars, fn_args, fn_prev>>

\* the function is called a second time, with any arguments
NextIdCall ==
    /\ pc = "return"
    /\ fn_prev = <<>>
    /\ fn_prev' = <<[args |-> fn_args, id |-> fn_result]>>
    /\ fn_args' \in IdArgs
    /\ pc' = "call"
    /\ UNCHANGED <<text, source_file, lines, questions, i, block_vars, h_blocks, main_vars,
                   classify_vars, fn_result>>

NextId == GenerateQuestionId \/ NextIdCall

SpecId == InitId /\ [][NextId]_vars

\* the decimal digits of n, with zeros in front up to three digits
ThreeDigits(n) ==
    IF n < 10 THEN <<"0", "0">> \o str(n)
    ELSE IF n < 100 THEN <<"0">> \o str(n)
    ELSE str(n)

\* C15: the id is the exam type, the year or UNKNOWN when there is none, and
\* the question number with zeros in front up to three digits, joined as
\* TYPE_YEAR_Qnnn; two ids are equal exactly when the exam type, the year
\* and the question number are.
C15_IdOfExamYearNumber ==
    pc = "return" =>
        /\ fn_result =
               fn_args.exam.exam_type \o <<"_">>
               \o (IF fn_args.exam.year = NoYear
                   THEN <<"U", "N", "K", "N", "O", "W", "N">>
                   ELSE str(fn_args.exam.year[1]))
               \o <<"_", "Q">> \o ThreeDigits(fn_args.q_num)
        /\ \A k \in 1..Len(fn_prev) : fn_prev[k].id = fn_result <=> fn_prev[k].args = fn_args

\* question 7 of a file without a year, after question 7 of NET 2019
C15_Witness ==
    /\ pc = "return"
    /\ fn_prev # <<>>
    /\ fn_prev[1].id = <<"N", "E", "T", "_", "2", "0", "1", "9", "_", "Q", "0", "0", "7">>
    /\ fn_result = <<"G", "E", "N", "E", "R", "A", "L", "_", "U", "N", "K", "N", "O", "W", "N", "_", "Q", "0", "0", "7">>

(***************************************************************************)
(* parse_questions_from_text called on a text with a blank line, then on   *)
(* the text without it                                                     *)
(***************************************************************************)
\* the lines of the texts before the blank line is put in
BaseLineSet == {
    <<"1", ".", " ", "a", "t", "o", "m">>,
    <<"a", ".", " ", "x">>,
    <<"(", "C", "O", "R", "R", "E", "C", "T", ")">>,
    <<"A", "n", "s", "w", "e", "r", ":", " ", "B">>
}

\* a line that is empty and one that holds white space only
BlankLines == {<<>>, <<" ", "\t">>}

\* ls with the line l put in before its p-th line, p = Len(ls) + 1 for the end
InsertLine(ls, p, l) == SubSeq(ls, 1, p - 1) \o <<l>> \o SubSeq(ls, p, Len(ls))

\* every text of at most MaxLines lines of BaseLineSet with one blank line
\* put in at any position
BlankDocs ==
    UNION {{join(<<"\n">>, InsertLine(ls, p, l)) : p \in 1..(Len(ls) + 1), l \in BlankLines} :
              ls \in UNION {[1..n -> BaseLineSet] : n \in 0..MaxLines}}

\* the text without its empty and whitespace-only lines
without_blank_lines(t) ==
    join(<<"\n">>, SelectSeq(split(t, "\n"), LAMBDA l : strip(l) # <<>>))

InitBlank ==
    /\ text \in BlankDocs
    /\ source_file = PaperTxt
    /\ lines = split(text, "\n")
    /\ questions = <<>>
    /\ i = 0
    /\ pc = "scan"
    /\ FreshLocals
    /\ h_blocks = <<>>
    /\ NoMain
    /\ NoClassify
    /\ NoCall

\* the call has returned; the parser is called on the text without its
\* blank lines
ParseWithoutBlankLines ==
    /\ pc = "done"
    /\ fn_prev = <<>>
    /\ fn_prev' = <<[text |-> text, questions |-> questions]>>
    /\ text' = without_blank_lines(text)
    /\ enter_parse(text')
    /\ q_num' = 0
    /\ question_lines' = <<>>
    /\ full_question' = <<>>
    /\ options' = <<>>
    /\ correct_answer' = None
    /\ option_format' = "none"
    /\ opt_label' = <<>>
    /\ option_lines' = <<>>
    /\ solution_lines' = <<>>
    /\ solution' = None
    /\ h_start' = 0
    /\ h_raw' = <<>>
    /\ h_blocks' = <<>>
    /\ pc' = "scan"
    /\ UNCHANGED <<source_file, main_vars, classify_vars, fn_args, fn_result>>

NextBlank == Next \/ ParseWithoutBlankLines

SpecBlank == InitBlank /\ [][NextBlank]_vars

\* C20: empty and whitespace-only lines are skipped in every phase: the
\* text with such a line, at whatever position, and the text without it
\* give the same list of Questions.
C20_BlankLinesChangeNothing ==
    (pc = "done" /\ fn_prev # <<>>) => questions = fn_prev[1].questions

\* both calls have returned the same Question; the blank line was between
\* the first line of an option and its continuation
C20_Witness ==
    /\ pc = "done"
    /\ fn_prev # <<>>
    /\ questions # <<>>
    /\ questions = fn_prev[1].questions
    /\ \E j \in 1..(Len(lines) - 1) :
           /\ OptionStart[lines[j]].matched
           /\ lines[j + 1] = <<"(", "C", "O", "R", "R", "E", "C", "T", ")">>
           /\ LET given == split(fn_prev[1].text, "\n")
              IN  /\ Len(given) = Len(lines) + 1
                  /\ strip(given[j + 1]) = <<>>
                  /\ given[j] = lines[j]
                  /\ given[j + 2] = lines[j + 1]

(***************************************************************************)
(* find_topic alone                                                        *)
(***************************************************************************)
\* what a text is made of: keywords of physics topics declared second
\* (wave), fourth (force, mass) and last (atom, also a chemistry keyword),
\* a word that holds two keywords of waves (wavelength), four more of them
\* in one piece, a biology keyword that is declared in capitals (DNA) and
\* one that is not (gene), and a word that is no keyword
TopicWordSet == {
    <<"W", "a", "v", "e">>,
    <<"f", "o", "r", "c", "e">>,
    <<"m", "a", "s", "s">>,
    <<"a", "t", "o", "m">>,
    <<"w", "a", "v", "e", "l", "e", "n", "g", "t", "h">>,
    <<"s", "o", "u", "n", "d", " ", "d", "o", "p", "p", "l", "e", "r", " ",
      "f", "r", "e", "q", "u", "e", "n", "c", "y", " ",
      "d", "i", "f", "f", "r", "a", "c", "t", "i", "o", "n">>,
    <<"D", "N", "A">>,
    <<"g", "e", "n", "e">>,
    <<"t", "h", "e">>
}

TopicTexts ==
    {join(<<" ">>, ws) : ws \in UNION {[1..n -> TopicWordSet] : n \in 0..MaxWords}}

\* the subjects that have topics, and two that have none
TopicSubjects ==
    {TOPICS[k].subject : k \in 1..Len(TOPICS)}
    \cup {<<"g", "e", "n", "e", "r", "a", "l">>, <<>>}

TopicArgs == [text : TopicTexts, subject : TopicSubjects]

InitTopic ==
    /\ fn_args \in TopicArgs
    /\ fn_result = None
    /\ fn_prev = <<>>
    /\ pc = "call"
    /\ NoParse
    /\ NoMain
    /\ NoClassify

\* lines 67-101: the call returns
FindTopic ==
    /\ pc = "call"
    /\ fn_result' = find_topic(fn_args.text, fn_args.subject)
    /\ pc' = "return"
    /\ UNCHANGED <<text, source_file, lines, questions, i, block_vars, h_blocks, main_vars,
                   classify_vars, fn_args, fn_prev>>

NextTopic == FindTopic

SpecTopic == InitTopic /\ [][NextTopic]_vars

\* the topics declared for the subject of the call, in declaration order;
\* none when the subject has no vocabulary
DeclaredTopics ==
    LET known == {k \in 1..Len(TOPICS) : TOPICS[k].subject = fn_args.subject}
    IN  IF known = {} THEN <<>> ELSE TOPICS[CHOOSE k \in known : TRUE].topics

\* the keywords of a topic that occur in the lowercased text of the call
MatchedOf(entry) ==
    {entry.keywords[k] : k \in {k \in 1..Len(entry.keywords) :
                                  contains(lower(fn_args.text), entry.keywords[k])}}

\* C23: find_topic returns the topic of the subject that has the highest
\* count of matched keywords, the first declared of them when several have
\* it; it returns no topic and no tags when the highest count is zero or
\* the subject has no topics; the tags are at most 5 and each of them is a
\* matched keyword of the topic returned.
C23_BestTopicFirstDeclared ==
    pc = "return" =>
        LET declared == DeclaredTopics
            counts == [t \in 1..Len(declared) |-> Cardinality(MatchedOf(declared[t]))]
        IN  IF \A t \in 1..Len(declared) : counts[t] = 0
            THEN fn_result.topic = None /\ fn_result.tags = <<>>
            ELSE \E t \in 1..Len(declared) :
                     /\ \A u \in 1..Len(declared) : counts[u] <= counts[t]
                     /\ \A u \in 1..(t - 1) : counts[u] < counts[t]
                     /\ fn_result.topic = declared[t].topic
                     /\ Len(fn_result.tags) <= 5
                     /\ \A k \in 1..Len(fn_result.tags) :
                            fn_result.tags[k] \in MatchedOf(declared[t])

\* a call returned waves, with the one tag wave, for a physics text that
\* has one keyword of waves and one of mechanics, a topic declared later
C23_Witness ==
    /\ pc = "return"
    /\ fn_args.subject = <<"p", "h", "y", "s", "i", "c", "s">>
    /\ contains(lower(fn_args.text), <<"f", "o", "r", "c", "e">>)
    /\ Cardinality(MatchedOf(DeclaredTopics[4])) = 1
    /\ fn_result.topic = <<"w", "a", "v", "e", "s">>
    /\ fn_result.tags = << <<"w", "a", "v", "e">> >>

====
